---- MODULE Spec2Model ----
(***************************************************************************)
(* home_finder: the scrape-and-pipeline engine.                            *)
(*                                                                         *)
(*   Spec        the pipeline orchestrator: build_processing_pipeline,     *)
(*               the Celery chain it enqueues, and the status query        *)
(*               (apps/WebScraper/views.py, apps/WebScraper/tasks/*.py).   *)
(*   ScrapeSpec  the parallel scrape scheduler                             *)
(*               (PCPAOScraper.scrape_properties_parallel, _scrape_worker).*)
(*   ScrapeFairSpec  the same, with the thread pool running every worker.  *)
(*   RunSpec     one scrape run and its freshness check                    *)
(*               (scrape_pinellas_properties, tasks/scrape_data.py).       *)
(*   RerunSpec   a scrape run followed, hours later, by a second one.      *)
(*   UpsertSpec  the bulk upsert (bulk_upsert_properties,                  *)
(*               services/pcpao_importer.py).                              *)
(*   UpsertTwiceSpec  the bulk upsert applied twice to one batch.          *)
(*   UpsertFaultSpec  the bulk upsert on a database that fails statements. *)
(*   StoreSpec   the bulk upsert next to the saves of a scrape run.        *)
(*   CrawlSpec   the record crawler                                        *)
(*               (PCPAOScraper.search_properties_with_urls).               *)
(*   CrawlFairSpec  the same, with the crawler always taking its next step.*)
(*   EntrySpec   the entry points that open browser sessions:              *)
(*               scrape_by_criteria on top of the scheduler, the scrape    *)
(*               run, and TaxCollectorScraper.scrape_batch.                *)
(*   KeywordSpec the keyword priorities                                    *)
(*               (submit_keyword_order, apps/KeywordSelection/views.py).   *)
(*   StageSpec   the tax and sort stages of two runs next to the saves of  *)
(*               other runs (scrape_tax_data, generate_sorted_properties). *)
(***************************************************************************)
EXTENDS Integers, Sequences, FiniteSets, TLC

VARIABLES
    \* ---- pipeline orchestrator (views.py) ----
    pc,           \* position inside build_processing_pipeline
    chainTasks,   \* the task names of task_chain, in chain order
    frozenId,     \* frozenId[i]: the id freeze() gave the i-th signature
    task_ids,     \* the local list task_ids of build_processing_pipeline
    cache,        \* django cache: key -> entry (descriptor + expiry)
    runId,        \* the id of the AsyncResult build_processing_pipeline returns
    queue,        \* positions of the chain whose message is on the broker
    running,      \* positions of the stages workers are executing
    taskState,    \* result backend: id -> Celery state
    taskInfo,     \* result backend: id -> meta / result / exception
    now,          \* wall clock, seconds
    queried,      \* the id of the last status query
    response,     \* the JSON body of the last status query
    \* ---- parallel scrape scheduler (pcpao_scraper.py) ----
    parcels,      \* the candidates handed to scrape_properties_parallel
    max_workers,  \* its max_workers argument
    mainPc,       \* position of the calling thread
    chunks,       \* the non-empty round-robin shards
    wpc,          \* wpc[w]: position of worker w inside _scrape_worker
    wpos,         \* wpos[w]: how many parcels of its chunk worker w has done
    wresults,     \* wresults[w]: the local list results of worker w
    outcomes,     \* outcomes[i]: how the detail page of candidate i behaved
    future,       \* future[w]: "running" | "result" | "exception"
    consumed,     \* the futures as_completed has already yielded, in order
    results,      \* the pre-sized results array of the calling thread
    output,       \* what scrape_properties_parallel returned
    sessions,     \* the browser sessions opened so far, by scraper object
    \* ---- scrape_by_criteria and scrape_batch ----
    critPc,       \* position inside scrape_by_criteria
    crit_limit,   \* its limit argument (0 for None)
    crit_found,   \* what its search returns
    crit_parcels, \* its local list parcels
    crit_result,  \* what it returned
    taxPc,        \* position inside TaxCollectorScraper.scrape_batch
    tax_ids,      \* its parcel_ids argument
    tax_data_list, \* its local list tax_data_list
    \* ---- record store (models.py) ----
    store,        \* PropertyListing table: parcel_id -> row
    clock,        \* wall clock, hours
    \* ---- one scrape run (scrape_data.py) ----
    runPc,        \* position inside scrape_pinellas_properties
    search_criteria, \* its search_criteria argument
    limit,        \* its limit argument
    found,        \* what search_properties_with_urls returns
    run_parcels,  \* the local list parcels
    cached_parcels,    \* the keys the freshness query returned
    parcels_to_scrape, \* the candidates handed to the parallel scraper
    properties,   \* the scraped records left after the post-filter
    saved,        \* how many of them the save loop has gone through
    property_ids, \* the local list property_ids
    cached_count, \* the local cached_count
    freshness_queries, \* store queries the freshness check has issued
    run_result,   \* what the run returned
    \* ---- one bulk upsert (services/pcpao_importer.py) ----
    upsertPc,     \* position inside bulk_upsert_properties
    batch,        \* its argument `properties`
    existing_records,     \* parcel_id -> the instance the batched read loaded
    new_properties,       \* the instances to create
    properties_to_update, \* the loaded instances to update (by key)
    stats,        \* {'created', 'updated'}
    db_reads,     \* batched reads the call has issued
    db_inserts,   \* bulk_create calls the call has issued
    db_updates,   \* bulk_update calls the call has issued
    store_at_call, \* the store as the call found it
    upsert_calls, \* how many times the batch has been handed to the upsert
    \* ---- the record crawler (pcpao_scraper.py) ----
    crawlPc,      \* position inside search_properties_with_urls
    pages,        \* the result pages of the site: the links of each page
    page_num,     \* the local page_num
    seen_ids,     \* the local set seen_ids
    crawl_parcels, \* the local list parcels
    extracted,    \* how many pages _extract_parcels_from_page has read
    crawl_result, \* what search_properties_with_urls returned
    calls,        \* how many times search_properties_with_urls was called
    earlier_keys, \* the keys its earlier calls returned
    crawl_exit,   \* how the search left its try block ("" while inside)
    stale_count,  \* stale-element errors on the current page (up to MaxStale)
    \* ---- the tax and sort stages (tasks/scrape_data.py, tasks/sort_data.py) ----
    stagePc,      \* stagePc[r]: the stage run r of the chain is about to execute
    scrape_result, \* what the scrape stage handed on (the same for every run)
    tax_result,   \* tax_result[r]: what scrape_tax_data returned in run r
    sort_result,  \* sort_result[r]: what generate_sorted_properties returned
    \* ---- keyword priorities (KeywordSelection/views.py) ----
    kwPc,         \* position inside submit_keyword_order
    keywords,     \* Keyword table: name -> priority
    kw_body,      \* the request
    kw_pos,       \* how many entries of ordered_keywords the loop has applied
    kw_response,  \* the status code of the response (0 while none)
    keywords_at_call \* the Keyword table as the request found it

pipeVars == <<pc, chainTasks, frozenId, task_ids, cache, runId, queue, running,
              taskState, taskInfo, now, queried, response>>
schedVars == <<parcels, max_workers, mainPc, chunks, wpc, wpos, wresults,
               outcomes, future, consumed, results, output>>
entryVars == <<critPc, crit_limit, crit_found, crit_parcels, crit_result,
               taxPc, tax_ids, tax_data_list>>
scrapeVars == <<schedVars, sessions, entryVars>>
runVars == <<store, clock, runPc, search_criteria, limit, found, run_parcels,
             cached_parcels, parcels_to_scrape, properties, saved, property_ids,
             cached_count, freshness_queries, run_result>>
upsertVars == <<upsertPc, batch, existing_records, new_properties,
                properties_to_update, stats, db_reads, db_inserts, db_updates,
                store_at_call, upsert_calls>>
crawlVars ==
    <<crawlPc, pages, page_num, seen_ids, crawl_parcels, extracted, crawl_result,
      calls, earlier_keys, crawl_exit, stale_count>>
stageVars == <<stagePc, scrape_result, tax_result, sort_result>>
kwVars == <<kwPc, keywords, kw_body, kw_pos, kw_response, keywords_at_call>>
vars == <<pipeVars, scrapeVars, runVars, upsertVars, crawlVars, stageVars, kwVars>>

(***************************************************************************)
(* Bounds of the model.                                                    *)
(***************************************************************************)
MaxSave == 2         \* properties saved / rendered by one run
MaxTicks == 3        \* clock ticks the model follows
MaxParcels == 3      \* candidates of one parallel scrape
MaxWorkers == 2      \* largest max_workers tried
MaxBatch == 2        \* records of one bulk upsert
MaxLinks == 2        \* links shown by the result pages of one search
MaxCalls == 2        \* searches one scraper runs
MaxStale == 2        \* stale-element errors counted on one page

(***************************************************************************)
(* Python values.  A dict is a function from its keys; everything that is  *)
(* not a dict carries a "kind" field.                                      *)
(***************************************************************************)
PyNone == [kind |-> "None"]
PyException(text) == [kind |-> "Exception", text |-> text]
IsDict(v) == "kind" \notin DOMAIN v
Get(d, k, default) == IF k \in DOMAIN d THEN d[k] ELSE default
Str(v) == IF IsDict(v) THEN "{...}" ELSE IF v.kind = "None" THEN "None" ELSE v.text

Range(s) == {s[i] : i \in DOMAIN s}

RECURSIVE Reverse(_)
Reverse(s) == IF s = <<>> THEN <<>> ELSE Append(Reverse(Tail(s)), Head(s))

(***************************************************************************)
(* The chain of build_processing_pipeline.                                 *)
(***************************************************************************)
BaseChain == <<"scrape_pinellas_properties", "scrape_tax_data",
               "generate_sorted_properties", "generate_listing_pdf",
               "analyze_data">>
EmailTask == "send_results_via_email"

\* the ids freeze() hands out (uuid4 strings), in the order of the signatures
UuidPool == <<"7f3a", "02c9", "b51e", "4d80", "e6a7", "19fb">>
TaskIds == Range(UuidPool)
NoId == "-"

ChainTTL == 3600
TickSeconds == 1800

\* chain(...) and the optional `task_chain |= send_results_via_email.s(..)`
BuildChain(user_email) ==
    IF user_email # "" THEN Append(BaseChain, EmailTask) ELSE BaseChain

\* frozen_chain is the result of the LAST task; .parent leads to the one
\* before.  Parent(ids, id) is None (NoId) for the first task.
FrozenHead(ids) == ids[Len(ids)]
Parent(ids, id) ==
    LET i == CHOOSE j \in DOMAIN ids : ids[j] = id
    IN  IF i = 1 THEN NoId ELSE ids[i - 1]

\* while current: task_ids.append(current.id); current = current.parent
RECURSIVE WalkParents(_, _)
WalkParents(ids, current) ==
    IF current = NoId THEN <<>>
    ELSE <<current>> \o WalkParents(ids, Parent(ids, current))

\* lines 58-67: collect by walking .parent, then reverse
CollectTaskIds_NoReverse(ids) == WalkParents(ids, FrozenHead(ids))
CollectTaskIds(ids) == Reverse(WalkParents(ids, FrozenHead(ids)))

\* cache.set(key, value, timeout) and cache.get(key)
NoEntry == [present |-> FALSE]
CacheSet(c, key, value, timeout) ==
    [c EXCEPT ![key] = [present |-> TRUE, value |-> value, expires |-> now + timeout]]
CacheGet(key) ==
    IF cache[key].present /\ now < cache[key].expires THEN cache[key] ELSE NoEntry

(***************************************************************************)
(* The status query (views.py 127-244).                                    *)
(***************************************************************************)
\* AsyncResult(tid).state / .info / .result
State(tid) == taskState[tid]
Info(tid) == taskInfo[tid]
Result(tid) == taskInfo[tid]

\* _get_single_task_status
SingleTaskStatus_NoFailureBranch(task_id) ==
    IF State(task_id) = "PENDING" THEN
        [state |-> "PENDING", current |-> 0, total |-> 100, status |-> "Pending..."]
    ELSE
        LET info == IF IsDict(Info(task_id)) THEN Info(task_id) ELSE <<>>
        IN  [state |-> State(task_id),
             current |-> Get(info, "current", 0),
             total |-> Get(info, "total", 100),
             status |-> Get(info, "status", ""),
             result |-> Result(task_id)]
SingleTaskStatus(task_id) ==
    IF State(task_id) = "PENDING" THEN
        [state |-> "PENDING", current |-> 0, total |-> 100, status |-> "Pending..."]
    ELSE IF State(task_id) # "FAILURE" THEN
        LET info == IF IsDict(Info(task_id)) THEN Info(task_id) ELSE <<>>
        IN  IF State(task_id) = "SUCCESS"
            THEN [state |-> State(task_id),
                  current |-> Get(info, "current", 0),
                  total |-> Get(info, "total", 100),
                  status |-> Get(info, "status", ""),
                  result |-> Result(task_id)]
            ELSE [state |-> State(task_id),
                  current |-> Get(info, "current", 0),
                  total |-> Get(info, "total", 100),
                  status |-> Get(info, "status", "")]
    ELSE
        [state |-> "FAILURE", current |-> 100, total |-> 100,
         status |-> Str(Info(task_id))]

\* the for loop of _get_chain_status (185-198), from position i on
RECURSIVE WalkChain(_, _, _, _)
WalkChain_SkipFailure(ids, i, completed_tasks, last_result) ==
    IF i > Len(ids) THEN
        [failed |-> FALSE, failure_info |-> "", completed_tasks |-> completed_tasks,
         last_result |-> last_result, active |-> FALSE, active_task_index |-> 0]
    ELSE IF State(ids[i]) = "SUCCESS" THEN
        WalkChain(ids, i + 1, completed_tasks + 1, Result(ids[i]))
    ELSE IF State(ids[i]) \in {"PENDING", "STARTED", "PROGRESS"} THEN
        [failed |-> FALSE, failure_info |-> "", completed_tasks |-> completed_tasks,
         last_result |-> last_result, active |-> TRUE, active_task_index |-> i - 1]
    ELSE
        WalkChain(ids, i + 1, completed_tasks, last_result)
WalkChain(ids, i, completed_tasks, last_result) ==
    IF i > Len(ids) THEN
        [failed |-> FALSE, failure_info |-> "", completed_tasks |-> completed_tasks,
         last_result |-> last_result, active |-> FALSE, active_task_index |-> 0]
    ELSE IF State(ids[i]) = "FAILURE" THEN
        [failed |-> TRUE, failure_info |-> Str(Info(ids[i])),
         completed_tasks |-> completed_tasks, last_result |-> last_result,
         active |-> FALSE, active_task_index |-> 0]
    ELSE IF State(ids[i]) = "SUCCESS" THEN
        WalkChain(ids, i + 1, completed_tasks + 1, Result(ids[i]))
    ELSE IF State(ids[i]) \in {"PENDING", "STARTED", "PROGRESS"} THEN
        [failed |-> FALSE, failure_info |-> "", completed_tasks |-> completed_tasks,
         last_result |-> last_result, active |-> TRUE, active_task_index |-> i - 1]
    ELSE
        WalkChain(ids, i + 1, completed_tasks, last_result)

\* lines 218-235.  task_weight = 100 / total_tasks is the rational 100/K;
\* base_progress + task_progress = (completed*100*100 + current*100) / (100*K),
\* and int() truncates.  (For K = 3..8 the IEEE double evaluation of the
\* Python expression gives the same integer for every completed < K and
\* current in 0..100.)
ChainProgress_Unscaled(total_tasks, completed_tasks, current) ==
    (completed_tasks * 100) \div total_tasks + current
ChainProgress_CountsActive(total_tasks, completed_tasks, current) ==
    ((completed_tasks + 1) * 100 * 100 + current * 100) \div (100 * total_tasks)
ChainProgress(total_tasks, completed_tasks, current) ==
    (completed_tasks * 100 * 100 + current * 100) \div (100 * total_tasks)

\* the message of the active stage (227-233)
ActiveStatus(w, total_tasks) ==
    LET tid == w.tid
        n == ToString(w.active_task_index + 1) \o "/" \o ToString(total_tasks) \o "..."
    IN  IF State(tid) = "PENDING" THEN "Waiting for task " \o n
        ELSE LET info == IF IsDict(Info(tid)) THEN Info(tid) ELSE <<>>
             IN  Get(info, "status", "Running task " \o n)

ActiveCurrent(tid) ==
    IF State(tid) = "PENDING" THEN 0
    ELSE LET info == IF IsDict(Info(tid)) THEN Info(tid) ELSE <<>>
         IN  Get(info, "current", 0)

\* _get_chain_status
ChainStatus(first_task_id, chain_info) ==
    LET ids == chain_info.task_ids
        total_tasks == chain_info.total_tasks
        w == WalkChain(ids, 1, 0, PyNone)
    IN  IF w.failed THEN
            [state |-> "FAILURE", current |-> 100, total |-> 100,
             status |-> w.failure_info]
        ELSE IF w.completed_tasks = total_tasks THEN
            [state |-> "SUCCESS", current |-> 100, total |-> 100,
             status |-> "All tasks completed", result |-> w.last_result]
        ELSE
            LET tid == IF w.active THEN ids[w.active_task_index + 1] ELSE NoId
                task_progress == IF w.active THEN ActiveCurrent(tid) ELSE 0
                status == IF w.active
                          THEN ActiveStatus([tid |-> tid,
                                             active_task_index |-> w.active_task_index],
                                            total_tasks)
                          ELSE "Processing..."
            IN  [state |-> "PROGRESS",
                 current |-> ChainProgress(total_tasks, w.completed_tasks, task_progress),
                 total |-> 100, status |-> status,
                 step |-> w.active_task_index + 1, total_steps |-> total_tasks]

\* get_task_status
GetTaskStatus(task_id) ==
    LET chain_info == CacheGet(task_id)
    IN  IF chain_info.present THEN ChainStatus(task_id, chain_info.value)
        ELSE SingleTaskStatus(task_id)

(***************************************************************************)
(* The stages (apps/WebScraper/tasks).                                     *)
(***************************************************************************)
\* The `current` values each stage hands to ProgressRecorder.set_progress.
\* scrape_pinellas_properties: 0, 5, 10, 10 + int(i / total_to_save * 85), 100
ScrapeProgressValues ==
    {0, 5, 10, 100} \cup {10 + (i * 85) \div n : i \in 1..MaxSave, n \in 1..MaxSave}
\* scrape_tax_data: 100
TaxProgressValues == {100}
\* generate_sorted_properties: 25, 35, 45, 50
SortProgressValues == {25, 35, 45, 50}
\* generate_listing_pdf: 50 + int(count / total_properties * 25), then 75
PdfProgressValues ==
    {75} \cup {50 + (count * 25) \div total : count \in 1..MaxSave, total \in 1..MaxSave}
\* analyze_data: set_progress(current_plot, ...) with current_plot = 0, and
\* nothing when there is no PDF to extend
AnalyzeProgressValues(input) ==
    IF Get(input, "pdf_path", "None") = "None" THEN {} ELSE {0}

ProgressValues(name, input) ==
    CASE name = "scrape_pinellas_properties" -> ScrapeProgressValues
      [] name = "scrape_tax_data" -> TaxProgressValues
      [] name = "generate_sorted_properties" -> SortProgressValues
      [] name = "generate_listing_pdf" -> PdfProgressValues
      [] name = "analyze_data" -> AnalyzeProgressValues(input)
      [] OTHER -> {}

\* What each stage returns when it returns (the payload is abstract: the keys
\* are the code's, the values stand for whatever the run produced).
ScrapeResult ==
    [property_ids |-> "property_ids", search_criteria |-> "search_criteria",
     cached_count |-> "cached_count", scraped_count |-> "scraped_count"]
TaxResult(input) ==
    [status |-> "Tax data from PCPAO bulk import",
     property_ids |-> Get(input, "property_ids", "[]"),
     total_processed |-> "total_processed",
     search_criteria |-> Get(input, "search_criteria", "{}"),
     cached_count |-> Get(input, "cached_count", "0")]
SortResult ==
    [sorted_properties |-> "sorted_properties", columns |-> "columns",
     excel_path |-> "PropertyListings.xlsx"]
\* `built` is the outcome of doc.build, whose exception is caught (824-830)
PdfResult(input, built) ==
    IF built
    THEN [status |-> "PDF generated successfully",
          pdf_path |-> "Real_Estate_Listings.pdf",
          excel_path |-> Get(input, "excel_path", "PropertyListings.xlsx"),
          search_criteria |-> Get(input, "search_criteria", "{}")]
    ELSE [status |-> "Failed to generate PDF: build error",
          pdf_path |-> "None",
          excel_path |-> Get(input, "excel_path", "PropertyListings.xlsx")]
AnalyzeResult(input) ==
    IF Get(input, "pdf_path", "None") = "None"
    THEN [pdf_path |-> "None",
          excel_path |-> Get(input, "excel_path", "PropertyListings.xlsx"),
          pdf |-> "None", excel |-> "/media/reports/PropertyListings.xlsx",
          status |-> "Skipped visualization - no PDF available"]
    ELSE [pdf |-> "/media/reports/Real_Estate_Report.pdf",
          excel |-> "/media/reports/PropertyListings.xlsx",
          pdf_path |-> "Real_Estate_Report.pdf",
          excel_path |-> Get(input, "excel_path", "PropertyListings.xlsx"),
          count |-> "count", status |-> "Analysis complete"]

TaskResult(name, input, built) ==
    CASE name = "scrape_pinellas_properties" -> ScrapeResult
      [] name = "scrape_tax_data" -> TaxResult(input)
      [] name = "generate_sorted_properties" -> SortResult
      [] name = "generate_listing_pdf" -> PdfResult(input, built)
      [] name = "analyze_data" -> AnalyzeResult(input)
      [] OTHER -> PyNone

\* send_results_via_email opens pdf_path: open(None) raises
MustRaise(name, input) ==
    name = EmailTask /\ IsDict(input) /\ Get(input, "pdf_path", "x") = "None"

ErrorText(name) == "error in " \o name

(***************************************************************************)
(* build_processing_pipeline (views.py 37-79).                             *)
(***************************************************************************)
\* the value stored under chain:<first_task_id> (71-74)
Descriptor_BaseCount(ids) == [task_ids |-> ids, total_tasks |-> Len(BaseChain)]
Descriptor(ids) == [task_ids |-> ids, total_tasks |-> Len(ids)]

\* first_task_id = task_ids[0]
FirstTaskId(ids) == ids[1]

\* 41-67: build the chain, freeze it, collect the ids
Freeze(user_email) ==
    /\ pc = "start"
    /\ chainTasks' = BuildChain(user_email)
    /\ frozenId' = SubSeq(UuidPool, 1, Len(chainTasks'))
    /\ task_ids' = CollectTaskIds(frozenId')
    /\ pc' = "frozen"
    /\ UNCHANGED <<scrapeVars, runVars, upsertVars, crawlVars, stageVars, kwVars>>
    /\ UNCHANGED <<cache, runId, queue, running, taskState, taskInfo, now,
                   queried, response>>

\* 69-74: cache.set('chain:<first>', {...}, timeout=3600)
StoreDescriptor ==
    /\ pc = "frozen"
    /\ cache' = CacheSet(cache, FirstTaskId(task_ids), Descriptor(task_ids), ChainTTL)
    /\ pc' = "stored"
    /\ UNCHANGED <<scrapeVars, runVars, upsertVars, crawlVars, stageVars, kwVars>>
    /\ UNCHANGED <<chainTasks, frozenId, task_ids, runId, queue, running,
                   taskState, taskInfo, now, queried, response>>

\* 76-79: task_chain.apply_async(); return AsyncResult(first_task_id)
ApplyAsync ==
    /\ pc = "stored"
    /\ queue' = {1}
    /\ runId' = FirstTaskId(task_ids)
    /\ pc' = "submitted"
    /\ UNCHANGED <<scrapeVars, runVars, upsertVars, crawlVars, stageVars, kwVars>>
    /\ UNCHANGED <<chainTasks, frozenId, task_ids, cache, running, taskState,
                   taskInfo, now, queried, response>>

(***************************************************************************)
(* The Celery worker running the chain: a stage's message is sent when the *)
(* stage before it has succeeded.                                          *)
(***************************************************************************)
\* a chain links stage i to stage i + 1: the message of the next stage is
\* sent when stage i has succeeded
ChainLink_All(i, n) == (i + 1)..n
ChainLink(i, n) == IF i < n THEN {i + 1} ELSE {}

StageInput(i) == IF i = 1 THEN PyNone ELSE taskInfo[frozenId[i - 1]]

\* a worker takes the message of stage i; with task_track_started the
\* backend records STARTED, without it the state stays PENDING
StartTask(i, track_started) ==
    /\ i \in queue
    /\ queue' = queue \ {i}
    /\ running' = running \cup {i}
    /\ taskState' = IF track_started
                    THEN [taskState EXCEPT ![frozenId[i]] = "STARTED"]
                    ELSE taskState
    /\ taskInfo' = IF track_started
                   THEN [taskInfo EXCEPT ![frozenId[i]] = [pid |-> "pid", hostname |-> "worker"]]
                   ELSE taskInfo
    /\ UNCHANGED <<scrapeVars, runVars, upsertVars, crawlVars, stageVars, kwVars>>
    /\ UNCHANGED <<pc, chainTasks, frozenId, task_ids, cache, runId, now,
                   queried, response>>

Reported(i) ==
    IF taskState[frozenId[i]] = "PROGRESS" THEN taskInfo[frozenId[i]].current ELSE 0

\* progress_recorder.set_progress(current, 100, description=...)
SetProgress(i, current) ==
    /\ i \in running
    /\ current \in ProgressValues(chainTasks[i], StageInput(i))
    /\ current >= Reported(i)
    /\ taskState' = [taskState EXCEPT ![frozenId[i]] = "PROGRESS"]
    /\ taskInfo' = [taskInfo EXCEPT ![frozenId[i]] =
                       [current |-> current, total |-> 100, percent |-> current,
                        description |-> chainTasks[i]]]
    /\ UNCHANGED <<scrapeVars, runVars, upsertVars, crawlVars, stageVars, kwVars>>
    /\ UNCHANGED <<pc, chainTasks, frozenId, task_ids, cache, runId, queue,
                   running, now, queried, response>>

\* the stage returns: SUCCESS, and the next stage is enqueued
TaskReturn(i, built) ==
    /\ i \in running
    /\ ~MustRaise(chainTasks[i], StageInput(i))
    /\ taskState' = [taskState EXCEPT ![frozenId[i]] = "SUCCESS"]
    /\ taskInfo' = [taskInfo EXCEPT ![frozenId[i]] =
                       TaskResult(chainTasks[i], StageInput(i), built)]
    /\ running' = running \ {i}
    /\ queue' = queue \cup ChainLink(i, Len(chainTasks))
    /\ UNCHANGED <<scrapeVars, runVars, upsertVars, crawlVars, stageVars, kwVars>>
    /\ UNCHANGED <<pc, chainTasks, frozenId, task_ids, cache, runId, now,
                   queried, response>>

\* the stage raises (or hits the hard time limit): FAILURE, the chain stops
TaskRaise(i) ==
    /\ i \in running
    /\ taskState' = [taskState EXCEPT ![frozenId[i]] = "FAILURE"]
    /\ taskInfo' = [taskInfo EXCEPT ![frozenId[i]] = PyException(ErrorText(chainTasks[i]))]
    /\ running' = running \ {i}
    /\ queue' = queue
    /\ UNCHANGED <<scrapeVars, runVars, upsertVars, crawlVars, stageVars, kwVars>>
    /\ UNCHANGED <<pc, chainTasks, frozenId, task_ids, cache, runId, now,
                   queried, response>>

\* a status query that drops the descriptor once it has given a final answer
Query_DropsDescriptor(task_id) ==
    /\ queried' = task_id
    /\ response' = GetTaskStatus(task_id)
    /\ cache' = IF response'.state \in {"SUCCESS", "FAILURE"}
                THEN [cache EXCEPT ![task_id] = NoEntry] ELSE cache
    /\ UNCHANGED <<scrapeVars, runVars, upsertVars, crawlVars, stageVars, kwVars>>
    /\ UNCHANGED <<pc, chainTasks, frozenId, task_ids, runId, queue,
                   running, taskState, taskInfo, now>>

\* GET /scraper/status/<task_id>/
Query(task_id) ==
    /\ queried' = task_id
    /\ response' = GetTaskStatus(task_id)
    /\ UNCHANGED <<scrapeVars, runVars, upsertVars, crawlVars, stageVars, kwVars>>
    /\ UNCHANGED <<pc, chainTasks, frozenId, task_ids, cache, runId, queue,
                   running, taskState, taskInfo, now>>

Tick ==
    /\ now < MaxTicks * TickSeconds
    /\ now' = now + TickSeconds
    /\ UNCHANGED <<scrapeVars, runVars, upsertVars, crawlVars, stageVars, kwVars>>
    /\ UNCHANGED <<pc, chainTasks, frozenId, task_ids, cache, runId, queue,
                   running, taskState, taskInfo, queried, response>>

PipeInit ==
    /\ pc = "start"
    /\ chainTasks = <<>>
    /\ frozenId = <<>>
    /\ task_ids = <<>>
    /\ cache = [k \in TaskIds |-> NoEntry]
    /\ runId = NoId
    /\ queue = {}
    /\ running = {}
    /\ taskState = [t \in TaskIds |-> "PENDING"]
    /\ taskInfo = [t \in TaskIds |-> PyNone]
    /\ now = 0
    /\ queried = NoId
    /\ response = [state |-> "-"]

Next ==
    \/ \E user_email \in {"", "user@example.org"} : Freeze(user_email)
    \/ StoreDescriptor
    \/ ApplyAsync
    \/ \E i \in 1..Len(chainTasks), track_started \in BOOLEAN : StartTask(i, track_started)
    \/ \E i \in 1..Len(chainTasks), current \in 0..100 : SetProgress(i, current)
    \/ \E i \in 1..Len(chainTasks), built \in BOOLEAN : TaskReturn(i, built)
    \/ \E i \in 1..Len(chainTasks) : TaskRaise(i)
    \/ \E task_id \in TaskIds : Query(task_id)
    \/ Tick

\* scrape_by_criteria and scrape_batch are not running
EntryIdle ==
    /\ critPc = "idle"
    /\ crit_limit = 0
    /\ crit_found = <<>>
    /\ crit_parcels = <<>>
    /\ crit_result = <<>>
    /\ taxPc = "idle"
    /\ tax_ids = <<>>
    /\ tax_data_list = <<>>

ScrapeIdle ==
    /\ parcels = <<>>
    /\ max_workers = 1
    /\ mainPc = "idle"
    /\ chunks = <<>>
    /\ wpc = <<>>
    /\ wpos = <<>>
    /\ wresults = <<>>
    /\ outcomes = <<>>
    /\ future = <<>>
    /\ consumed = <<>>
    /\ results = <<>>
    /\ output = <<>>
    /\ sessions = <<>>
    /\ EntryIdle

\* no scrape run in progress, an empty store
RunIdle ==
    /\ store = <<>>
    /\ clock = 0
    /\ runPc = "idle"
    /\ search_criteria = <<>>
    /\ limit = 0
    /\ found = <<>>
    /\ run_parcels = <<>>
    /\ cached_parcels = {}
    /\ parcels_to_scrape = <<>>
    /\ properties = <<>>
    /\ saved = 0
    /\ property_ids = <<>>
    /\ cached_count = 0
    /\ freshness_queries = 0
    /\ run_result = <<>>

\* no bulk upsert in progress
UpsertIdle ==
    /\ upsertPc = "idle"
    /\ batch = <<>>
    /\ existing_records = <<>>
    /\ new_properties = <<>>
    /\ properties_to_update = <<>>
    /\ stats = [created |-> 0, updated |-> 0]
    /\ db_reads = 0
    /\ db_inserts = 0
    /\ db_updates = 0
    /\ store_at_call = <<>>
    /\ upsert_calls = 0

\* no crawl in progress
CrawlIdle ==
    /\ crawlPc = "idle"
    /\ pages = <<>>
    /\ page_num = 0
    /\ seen_ids = {}
    /\ crawl_parcels = <<>>
    /\ extracted = 0
    /\ crawl_result = <<>>
    /\ calls = 0
    /\ earlier_keys = {}
    /\ crawl_exit = ""
    /\ stale_count = 0

StageIdle ==
    /\ stagePc = <<>>
    /\ scrape_result = <<>>
    /\ tax_result = <<>>
    /\ sort_result = <<>>

KwIdle ==
    /\ kwPc = "idle"
    /\ keywords = <<>>
    /\ kw_body = <<>>
    /\ kw_pos = 0
    /\ kw_response = 0
    /\ keywords_at_call = <<>>

Init ==
    PipeInit /\ ScrapeIdle /\ RunIdle /\ UpsertIdle /\ CrawlIdle /\ StageIdle /\ KwIdle

Spec == Init /\ [][Next]_vars

(***************************************************************************)
(* The parallel scrape scheduler (pcpao_scraper.py 472-685).               *)
(***************************************************************************)
\* the i-th candidate the search returned (parcel_id, detail_url)
Candidate(i) ==
    [parcel_id |-> "14-31-15-91961-004-011" \o ToString(i),
     detail_url |-> "https://www.pcpao.gov/property-details?s=" \o ToString(i)]

\* what _get_parcel_from_page reads when the page prints another parcel id
\* than the candidate's (the first h2 that looks like a parcel id)
PageParcel(parcel_id) ==
    LET i == CHOOSE j \in 1..MaxParcels : Candidate(j).parcel_id = parcel_id
    IN  "14-31-15-91961-005-011" \o ToString(i)

\* the URL the driver ends on (525): the detail URL given, or without one
\* (487-512) the first result link of a search for the key, made absolute
LandedUrl(parcel_id, detail_url) ==
    IF detail_url = "None"
    THEN "https://www.pcpao.gov/property-details?q=" \o parcel_id
    ELSE detail_url

\* how the detail page of one candidate behaves:
\*   "ok"           every step of scrape_property_details succeeds
\*   "ok_page_id"   every step succeeds and the page prints another parcel id
\*   "nav_error"    driver.get raises, or the search for the key shows no
\*                  result link (513-515): no field has been set
\*   "parse_error"  a step after `appraiser_url` was set raises (page_source)
\*   "late_error"   a step after the page's parcel id was taken raises
DetailOutcomes == {"ok", "ok_page_id", "nav_error", "parse_error", "late_error"}

\* scrape_property_details: property_data starts as {'parcel_id': parcel_id};
\* appraiser_url is the URL the driver ended on (525); the parcel id the page
\* prints replaces the candidate's (549-551); an exception inside the try is
\* logged (590-591) and property_data, as far as it was filled, is returned.
ScrapePropertyDetails_NoneOnError(parcel_id, detail_url, outcome) ==
    CASE outcome = "ok" ->
            [parcel_id |-> parcel_id, appraiser_url |-> LandedUrl(parcel_id, detail_url), owner_name |-> "OWNER",
             property_type |-> "Single Family Home", market_value |-> 250000]
      [] outcome = "ok_page_id" ->
            [parcel_id |-> PageParcel(parcel_id), appraiser_url |-> LandedUrl(parcel_id, detail_url),
             owner_name |-> "OWNER",
             property_type |-> "Single Family Home", market_value |-> 250000]
      [] OTHER -> PyNone
ScrapePropertyDetails(parcel_id, detail_url, outcome) ==
    CASE outcome = "nav_error" -> [parcel_id |-> parcel_id]
      [] outcome = "parse_error" -> [parcel_id |-> parcel_id, appraiser_url |-> LandedUrl(parcel_id, detail_url)]
      [] outcome = "late_error" ->
            [parcel_id |-> PageParcel(parcel_id), appraiser_url |-> LandedUrl(parcel_id, detail_url)]
      [] outcome = "ok_page_id" ->
            [parcel_id |-> PageParcel(parcel_id), appraiser_url |-> LandedUrl(parcel_id, detail_url),
             owner_name |-> "OWNER",
             property_type |-> "Single Family Home", market_value |-> 250000]
      [] OTHER -> [parcel_id |-> parcel_id, appraiser_url |-> LandedUrl(parcel_id, detail_url),
                   owner_name |-> "OWNER",
             property_type |-> "Single Family Home", market_value |-> 250000]

\* setup_driver (44-66): the scraper object gets a new browser session
OpenSession(ss, scraper) ==
    [x \in DOMAIN ss \cup {scraper} |->
        IF x = scraper THEN [state |-> "open", users |-> {}] ELSE ss[x]]

\* a call of who on the scraper object drives its session
UseSession(ss, scraper, who) ==
    [ss EXCEPT ![scraper].users = @ \cup {who}]

\* a close_driver that quits nothing
CloseSession_Never(ss, scraper) == ss

\* close_driver (68-71): if self.driver: self.driver.quit(); quit stops the
\* driver service even when it raises
CloseSession(ss, scraper) ==
    IF scraper \in DOMAIN ss THEN [ss EXCEPT ![scraper].state = "closed"] ELSE ss

\* the activation of _scrape_worker for chunk w
WorkerName(w) == "worker" \o ToString(w)

\* every worker drives the scraper object of its caller
WorkerScraper_Shared(w) == "self"

\* 610: worker_scraper = PCPAOScraper(headless=self.headless), the object on
\* which the worker calls setup_driver, scrape_property_details, close_driver
WorkerScraper(w) == "worker_scraper" \o ToString(w)

\* indexed_parcels = [{**p, '_index': i} for i, p in enumerate(parcels)]
IndexedParcels(ps) ==
    [i \in DOMAIN ps |-> [parcel_id |-> ps[i].parcel_id,
                          detail_url |-> ps[i].detail_url, index |-> i - 1]]

\* chunks[i % max_workers].append(parcel), then the empty chunks are removed
Shard(ps, n, k) == SelectSeq(IndexedParcels(ps), LAMBDA q : q.index % n = k)
RECURSIVE ShardsFrom(_, _, _)
ShardsFrom(ps, n, k) ==
    IF k >= n THEN <<>>
    ELSE IF Shard(ps, n, k) = <<>> THEN ShardsFrom(ps, n, k + 1)
    ELSE <<Shard(ps, n, k)>> \o ShardsFrom(ps, n, k + 1)
RoundRobin(ps, n) == ShardsFrom(ps, n, 0)

\* results[idx] = property_data
StoreResult_Append(res, idx, property_data) ==
    LET free == {j \in DOMAIN res : res[j] = PyNone}
        first == CHOOSE j \in free : \A m \in free : j <= m
    IN  [res EXCEPT ![first] = property_data]
StoreResult(res, idx, property_data) == [res EXCEPT ![idx + 1] = property_data]

\* for idx, property_data in worker_results: results[idx] = property_data
RECURSIVE StoreAll(_, _)
StoreAll(res, worker_results) ==
    IF worker_results = <<>> THEN res
    ELSE StoreAll(StoreResult(res, Head(worker_results)[1], Head(worker_results)[2]),
                  Tail(worker_results))

\* return [r for r in results if r is not None]
DropNone(res) == SelectSeq(res, LAMBDA r : r # PyNone)

\* scrape_properties_parallel up to the submission of the workers (644-671)
CallParallel ==
    /\ mainPc = "call"
    /\ IF parcels = <<>>
       THEN /\ output' = <<>>
            /\ mainPc' = "returned"
            /\ UNCHANGED <<chunks, wpc, wpos, wresults, future, results>>
       ELSE /\ chunks' = RoundRobin(parcels, max_workers)
            /\ results' = [i \in DOMAIN parcels |-> PyNone]
            /\ wpc' = [w \in DOMAIN chunks' |-> "setup"]
            /\ wpos' = [w \in DOMAIN chunks' |-> 0]
            /\ wresults' = [w \in DOMAIN chunks' |-> <<>>]
            /\ future' = [w \in DOMAIN chunks' |-> "running"]
            /\ mainPc' = "as_completed"
            /\ UNCHANGED output
    /\ UNCHANGED <<parcels, max_workers, outcomes, consumed>>
    /\ UNCHANGED <<sessions, entryVars, pipeVars, runVars, upsertVars, crawlVars, stageVars, kwVars>>

\* _scrape_worker 610-613: worker_scraper.setup_driver(); when it raises, the
\* finally clause closes nothing and the exception ends the future
WorkerSetup(w, ok) ==
    /\ mainPc = "as_completed"
    /\ wpc[w] = "setup"
    /\ IF ok
       THEN /\ wpc' = [wpc EXCEPT ![w] = "loop"]
            /\ UNCHANGED future
       ELSE /\ wpc' = [wpc EXCEPT ![w] = "done"]
            /\ future' = [future EXCEPT ![w] = "exception"]
    /\ UNCHANGED <<parcels, max_workers, mainPc, chunks, wpos, wresults, outcomes,
                   consumed, results, output>>
    /\ sessions' = IF ok THEN OpenSession(sessions, WorkerScraper(w)) ELSE sessions
    /\ UNCHANGED <<entryVars, pipeVars, runVars, upsertVars, crawlVars, stageVars, kwVars>>

\* _scrape_worker 614-623: one parcel of the chunk.  scrape_property_details
\* catches every Exception itself, so the except clause of 621-623 never runs.
WorkerScrape(w, outcome) ==
    /\ mainPc = "as_completed"
    /\ wpc[w] = "loop"
    /\ wpos[w] < Len(chunks[w])
    /\ LET parcel_info == chunks[w][wpos[w] + 1]
           property_data == ScrapePropertyDetails(parcel_info.parcel_id,
                                                  parcel_info.detail_url, outcome)
       IN  /\ wresults' = [wresults EXCEPT ![w] =
                              Append(@, <<parcel_info.index, property_data>>)]
           /\ outcomes' = [outcomes EXCEPT ![parcel_info.index + 1] = outcome]
    /\ wpos' = [wpos EXCEPT ![w] = @ + 1]
    /\ UNCHANGED <<parcels, max_workers, mainPc, chunks, wpc, future, consumed,
                   results, output>>
    /\ sessions' = UseSession(sessions, WorkerScraper(w), WorkerName(w))
    /\ UNCHANGED <<entryVars, pipeVars, runVars, upsertVars, crawlVars, stageVars, kwVars>>

\* _scrape_worker 624-626: finally close_driver(), then return results; when
\* driver.quit() raises, the exception ends the future instead
WorkerClose(w, ok) ==
    /\ mainPc = "as_completed"
    /\ wpc[w] = "loop"
    /\ wpos[w] = Len(chunks[w])
    /\ wpc' = [wpc EXCEPT ![w] = "done"]
    /\ future' = [future EXCEPT ![w] = IF ok THEN "result" ELSE "exception"]
    /\ UNCHANGED <<parcels, max_workers, mainPc, chunks, wpos, wresults, outcomes,
                   consumed, results, output>>
    /\ sessions' = CloseSession(sessions, WorkerScraper(w))
    /\ UNCHANGED <<entryVars, pipeVars, runVars, upsertVars, crawlVars, stageVars, kwVars>>

\* 673-682: as_completed yields a finished future; its results are stored by
\* index, or its exception is logged
Consume_NoExcept(w) ==
    /\ mainPc = "as_completed"
    /\ future[w] # "running"
    /\ w \notin Range(consumed)
    /\ consumed' = Append(consumed, w)
    /\ IF future[w] = "result"
       THEN results' = StoreAll(results, wresults[w]) /\ UNCHANGED mainPc
       ELSE mainPc' = "raised" /\ UNCHANGED results
    /\ UNCHANGED <<parcels, max_workers, chunks, wpc, wpos, wresults,
                   outcomes, future, output>>
    /\ UNCHANGED <<sessions, entryVars, pipeVars, runVars, upsertVars, crawlVars, stageVars, kwVars>>
Consume(w) ==
    /\ mainPc = "as_completed"
    /\ future[w] # "running"
    /\ w \notin Range(consumed)
    /\ consumed' = Append(consumed, w)
    /\ results' = IF future[w] = "result" THEN StoreAll(results, wresults[w])
                  ELSE results
    /\ UNCHANGED <<parcels, max_workers, mainPc, chunks, wpc, wpos, wresults,
                   outcomes, future, output>>
    /\ UNCHANGED <<sessions, entryVars, pipeVars, runVars, upsertVars, crawlVars, stageVars, kwVars>>

\* 684-685: every future was consumed; the None entries are filtered out
ReturnParallel ==
    /\ mainPc = "as_completed"
    /\ Range(consumed) = DOMAIN chunks
    /\ output' = DropNone(results)
    /\ mainPc' = "returned"
    /\ UNCHANGED <<parcels, max_workers, chunks, wpc, wpos, wresults, outcomes,
                   future, consumed, results>>
    /\ UNCHANGED <<sessions, entryVars, pipeVars, runVars, upsertVars, crawlVars, stageVars, kwVars>>

ScrapeInit ==
    /\ PipeInit
    /\ StageIdle
    /\ KwIdle
    /\ CrawlIdle
    /\ RunIdle
    /\ UpsertIdle
    /\ \/ \E n \in 0..MaxParcels : parcels = [i \in 1..n |-> Candidate(i)]
       \/ \E n \in 1..2 :
             parcels = [i \in 1..n |-> [Candidate(i) EXCEPT !.detail_url = "None"]]
    /\ max_workers \in 1..MaxWorkers
    /\ mainPc = "call"
    /\ chunks = <<>>
    /\ wpc = <<>>
    /\ wpos = <<>>
    /\ wresults = <<>>
    /\ outcomes = [i \in DOMAIN parcels |-> "-"]
    /\ future = <<>>
    /\ consumed = <<>>
    /\ results = <<>>
    /\ output = <<>>
    /\ sessions = [x \in {"self"} |-> [state |-> "closed", users |-> {"main"}]]
    /\ EntryIdle

ScrapeNext ==
    \/ CallParallel
    \/ \E w \in DOMAIN chunks, ok \in BOOLEAN : WorkerSetup(w, ok)
    \/ \E w \in DOMAIN chunks, outcome \in DetailOutcomes : WorkerScrape(w, outcome)
    \/ \E w \in DOMAIN chunks, ok \in BOOLEAN : WorkerClose(w, ok)
    \/ \E w \in DOMAIN chunks : Consume(w)
    \/ ReturnParallel

ScrapeSpec == ScrapeInit /\ [][ScrapeNext]_vars

\* The executor runs every submitted worker and as_completed yields every
\* finished future, so a step that can be taken is eventually taken.
ScrapeFairSpec == ScrapeInit /\ [][ScrapeNext]_vars /\ WF_vars(ScrapeNext)

(***************************************************************************)
(* The record store (models.py) and one scrape run                         *)
(* (scrape_pinellas_properties, scrape_data.py 78-209).  Python None       *)
(* inside a row or a result is written "None".                             *)
(***************************************************************************)
CACHE_HOURS == 24

\* the keys a run can meet: the candidates' and the ones pages print
StoreKeys ==
    {Candidate(i).parcel_id : i \in 1..MaxSave}
        \cup {PageParcel(Candidate(i).parcel_id) : i \in 1..MaxSave}

\* PropertyListing.objects.update_or_create(parcel_id=..., defaults=...):
\* the row with that key gets the defaults, a missing row is created first;
\* save() stamps last_scraped (auto_now)
UpdateOrCreate_Replace(st, parcel_id, defaults, t) ==
    [k \in {parcel_id} |->
        [address |-> defaults.address, owner_name |-> defaults.owner_name,
         appraiser_url |-> defaults.appraiser_url, last_scraped |-> t]]
\* a save that stamps last_scraped on creation only
UpdateOrCreate_KeepStamp(st, parcel_id, defaults, t) ==
    [k \in DOMAIN st \cup {parcel_id} |->
        IF k = parcel_id
        THEN [address |-> defaults.address, owner_name |-> defaults.owner_name,
              appraiser_url |-> defaults.appraiser_url,
              last_scraped |-> IF k \in DOMAIN st THEN st[k].last_scraped ELSE t]
        ELSE st[k]]
UpdateOrCreate(st, parcel_id, defaults, t) ==
    [k \in DOMAIN st \cup {parcel_id} |->
        IF k = parcel_id
        THEN [address |-> defaults.address, owner_name |-> defaults.owner_name,
              appraiser_url |-> defaults.appraiser_url, last_scraped |-> t]
        ELSE st[k]]

\* the defaults the save loop builds from one scraped record (165-181)
Defaults(property_data) ==
    [address |-> Get(property_data, "address", ""),
     owner_name |-> Get(property_data, "owner_name", "None"),
     appraiser_url |-> Get(property_data, "appraiser_url", "None")]

\* str.lower() and `needle in haystack` on the strings the model uses
Lower(text) ==
    CASE text = "Single Family" -> "single family"
      [] text = "Single Family Home" -> "single family home"
      [] text = "Condo" -> "condo"
      [] OTHER -> text
Contains(haystack, needle) ==
    \/ needle = ""
    \/ needle = haystack
    \/ <<haystack, needle>> \in {<<"single family home", "single family">>,
                                 <<"single family home", "family">>}

\* filter_properties_by_criteria: the records whose property_type contains a
\* requested type (when types are requested) and whose market_value, when
\* the record has one, lies within min_value..max_value
KeepsProperty(prop, criteria) ==
    LET requested_types == Get(criteria, "property_type", <<>>)
        min_value == Get(criteria, "min_value", 0)
        max_value == Get(criteria, "max_value", 0)
        prop_type == Lower(Get(prop, "property_type", ""))
        has_value == "market_value" \in DOMAIN prop
    IN  /\ requested_types # <<>> =>
              \E j \in DOMAIN requested_types :
                  Contains(prop_type, Lower(requested_types[j]))
        /\ (min_value # 0 /\ has_value) => prop.market_value >= min_value
        /\ (max_value # 0 /\ has_value) => prop.market_value <= max_value
FilterPropertiesByCriteria(props, criteria) ==
    SelectSeq(props, LAMBDA prop : KeepsProperty(prop, criteria))

\* the search criteria tried: none, a matching type, another type, a floor
\* above and a ceiling below the value the pages show
CriteriaTried ==
    { [city |-> "Clearwater"],
      [city |-> "Clearwater", property_type |-> <<"Single Family">>],
      [city |-> "Clearwater", property_type |-> <<"Condo">>],
      [city |-> "Clearwater", min_value |-> 300000],
      [city |-> "Clearwater", max_value |-> 200000] }

\* what scrape_properties_parallel(ps, max_workers = n) returns when the
\* workers of the shards in failed_shards fail fatally and the detail page of
\* candidate i behaves as outs[i] (C9: the records of the other candidates,
\* in candidate order)
ParallelOutput(ps, n, failed_shards, outs) ==
    DropNone([i \in DOMAIN ps |->
                IF ((i - 1) % n) \in failed_shards THEN PyNone
                ELSE ScrapePropertyDetails(ps[i].parcel_id, ps[i].detail_url, outs[i])])

\* the sessions scrape_properties_parallel(ps, max_workers = n) leaves behind:
\* the worker of every shard that did not fail has opened a session on its
\* own scraper object, driven it and closed it (610-626)
ParallelSessions(ss, ps, n, failed_shards) ==
    LET done == {w \in DOMAIN RoundRobin(ps, n) : (w - 1) \notin failed_shards}
    IN  [x \in DOMAIN ss \cup {WorkerScraper(w) : w \in done} |->
            IF \E w \in done : x = WorkerScraper(w)
            THEN [state |-> "closed",
                  users |-> {WorkerName(w) : w \in {v \in done : x = WorkerScraper(v)}}]
            ELSE ss[x]]

\* all orderings of a finite set (iteration order of a Python set)
Orderings(S) ==
    {q \in [1..Cardinality(S) -> S] : \A a, b \in DOMAIN q : a # b => q[a] # q[b]}

CutToLimit_Off(ps, lim) == ps

\* `if limit: parcels = parcels[:limit]` (scrape_data.py 103-104,
\* pcpao_scraper.py 701-702); 0 stands for None
CutToLimit(ps, lim) ==
    IF lim # 0 /\ lim < Len(ps) THEN SubSeq(ps, 1, lim) ELSE ps

\* 87-107: the task starts, one browser session runs the search, the result
\* is cut to `limit` when limit is truthy; setup_driver or the search raising
\* ends the task in FAILURE (200-202)
RunSearch(ok) ==
    /\ runPc = "search"
    /\ IF ok
       THEN /\ run_parcels' = CutToLimit(found, limit)
            /\ runPc' = "check"
       ELSE /\ runPc' = "raised"
            /\ UNCHANGED run_parcels
    /\ UNCHANGED <<store, clock, search_criteria, limit, found, cached_parcels,
                   parcels_to_scrape, properties, saved, property_ids,
                   cached_count, freshness_queries, run_result>>
    /\ LET searched == CloseSession(UseSession(OpenSession(sessions, "scraper"),
                                               "scraper", "main"), "scraper")
       IN  \* 100-106: setup_driver raising leaves no session, anything after
           \* it runs under the finally clause that closes the session
           sessions' \in IF ok THEN {searched} ELSE {sessions, searched}
    /\ UNCHANGED <<pipeVars, schedVars, entryVars, upsertVars, crawlVars, stageVars, kwVars>>

\* 108-110: nothing found
RunNothingFound ==
    /\ runPc = "check"
    /\ run_parcels = <<>>
    /\ run_result' = [property_ids |-> <<>>, search_criteria |-> search_criteria]
    /\ runPc' = "returned"
    /\ UNCHANGED <<store, clock, search_criteria, limit, found, run_parcels,
                   cached_parcels, parcels_to_scrape, properties, saved,
                   property_ids, cached_count, freshness_queries>>
    /\ UNCHANGED <<pipeVars, scrapeVars, upsertVars, crawlVars, stageVars, kwVars>>

\* 114-131: the freshness check: one query for the rows of the candidates'
\* keys with last_scraped >= now - CACHE_HOURS; the candidates not returned
\* are to be scraped, the keys returned go to property_ids (in set order)
FreshKeys_Strict(st, parcel_ids, cache_cutoff) ==
    {k \in Range(parcel_ids) : k \in DOMAIN st /\ st[k].last_scraped > cache_cutoff}
FreshKeys(st, parcel_ids, cache_cutoff) ==
    {k \in Range(parcel_ids) : k \in DOMAIN st /\ st[k].last_scraped >= cache_cutoff}
\* the queries 117-122 send: one filter(parcel_id__in=parcel_ids, ...)
FreshnessQueries_PerCandidate(parcel_ids) == Len(parcel_ids)
FreshnessQueries(parcel_ids) == 1
RunFreshnessCheck ==
    /\ runPc = "check"
    /\ run_parcels # <<>>
    /\ LET parcel_ids == [i \in DOMAIN run_parcels |-> run_parcels[i].parcel_id]
           cache_cutoff == clock - CACHE_HOURS
       IN  /\ cached_parcels' = FreshKeys(store, parcel_ids, cache_cutoff)
           /\ freshness_queries' = freshness_queries + FreshnessQueries(parcel_ids)
    /\ parcels_to_scrape' =
          SelectSeq(run_parcels, LAMBDA q : q.parcel_id \notin cached_parcels')
    /\ cached_count' = Cardinality(cached_parcels')
    /\ property_ids' \in Orderings(cached_parcels')
    /\ runPc' = IF parcels_to_scrape' # <<>> THEN "scrape" ELSE "finish"
    /\ UNCHANGED <<store, clock, search_criteria, limit, found, run_parcels,
                   properties, saved, run_result>>
    /\ UNCHANGED <<pipeVars, scrapeVars, upsertVars, crawlVars, stageVars, kwVars>>

\* 134-157: the stale candidates are scraped by three workers and the records
\* are post-filtered
RunScrape(failed_shards, outs) ==
    /\ runPc = "scrape"
    /\ properties' = FilterPropertiesByCriteria(
                         ParallelOutput(parcels_to_scrape, 3, failed_shards, outs),
                         search_criteria)
    /\ saved' = 0
    /\ runPc' = "save"
    /\ UNCHANGED <<store, clock, search_criteria, limit, found, run_parcels,
                   cached_parcels, parcels_to_scrape, property_ids, cached_count,
                   freshness_queries, run_result>>
    /\ sessions' = ParallelSessions(sessions, parcels_to_scrape, 3, failed_shards)
    /\ UNCHANGED <<pipeVars, schedVars, entryVars, upsertVars, crawlVars, stageVars, kwVars>>

\* 159-193: one turn of the save loop
RunSave ==
    /\ runPc = "save"
    /\ saved < Len(properties)
    /\ LET property_data == properties[saved + 1]
           parcel_id == Get(property_data, "parcel_id", "")
       IN  IF parcel_id # ""
           THEN /\ store' = UpdateOrCreate(store, parcel_id, Defaults(property_data), clock)
                /\ property_ids' = Append(property_ids, parcel_id)
           ELSE UNCHANGED <<store, property_ids>>
    /\ saved' = saved + 1
    /\ UNCHANGED <<clock, runPc, search_criteria, limit, found, run_parcels,
                   cached_parcels, parcels_to_scrape, properties, cached_count,
                   freshness_queries, run_result>>
    /\ UNCHANGED <<pipeVars, scrapeVars, upsertVars, crawlVars, stageVars, kwVars>>

\* the save loop is over
RunSaved ==
    /\ runPc = "save"
    /\ saved = Len(properties)
    /\ runPc' = "finish"
    /\ UNCHANGED <<store, clock, search_criteria, limit, found, run_parcels,
                   cached_parcels, parcels_to_scrape, properties, saved,
                   property_ids, cached_count, freshness_queries, run_result>>
    /\ UNCHANGED <<pipeVars, scrapeVars, upsertVars, crawlVars, stageVars, kwVars>>

\* 195-209: the counts and the result
RunReturn ==
    /\ runPc = "finish"
    /\ LET total_properties == Len(property_ids)
       IN  run_result' = [property_ids |-> property_ids,
                          search_criteria |-> search_criteria,
                          cached_count |-> cached_count,
                          scraped_count |-> total_properties - cached_count]
    /\ runPc' = "returned"
    /\ UNCHANGED <<store, clock, search_criteria, limit, found, run_parcels,
                   cached_parcels, parcels_to_scrape, properties, saved,
                   property_ids, cached_count, freshness_queries>>
    /\ UNCHANGED <<pipeVars, scrapeVars, upsertVars, crawlVars, stageVars, kwVars>>

\* an hour passes
HourTick ==
    /\ runPc \in {"search", "check", "scrape", "save", "finish"}
    /\ clock < CACHE_HOURS + MaxTicks
    /\ clock' = clock + 1
    /\ UNCHANGED <<store, runPc, search_criteria, limit, found, run_parcels,
                   cached_parcels, parcels_to_scrape, properties, saved,
                   property_ids, cached_count, freshness_queries, run_result>>
    /\ UNCHANGED <<pipeVars, scrapeVars, upsertVars, crawlVars, stageVars, kwVars>>

\* a row as an earlier run left it, refreshed at hour t
OldRow(t) ==
    [address |-> "", owner_name |-> "None", appraiser_url |-> "None", last_scraped |-> t]

\* a run is called with some criteria and limit; the search will find the
\* first n candidates; the store holds rows of some of them, refreshed 24 or
\* 23 hours before the run starts, and hours pass while the run goes on
RunInit ==
    /\ PipeInit
    /\ StageIdle
    /\ KwIdle
    /\ CrawlIdle
    /\ ScrapeIdle
    /\ UpsertIdle
    /\ clock = CACHE_HOURS + 1
    /\ \E S \in SUBSET {Candidate(i).parcel_id : i \in 1..MaxSave} :
          store \in [S -> {OldRow(t) : t \in 1..2}]
    /\ runPc = "search"
    /\ search_criteria \in CriteriaTried
    /\ limit \in {0, 1, 10}
    /\ \E n \in 0..MaxSave : found = [i \in 1..n |-> Candidate(i)]
    /\ run_parcels = <<>>
    /\ cached_parcels = {}
    /\ parcels_to_scrape = <<>>
    /\ properties = <<>>
    /\ saved = 0
    /\ property_ids = <<>>
    /\ cached_count = 0
    /\ freshness_queries = 0
    /\ run_result = <<>>

RunNext ==
    \/ \E ok \in BOOLEAN : RunSearch(ok)
    \/ RunNothingFound
    \/ RunFreshnessCheck
    \/ \E failed_shards \in SUBSET (0..2) :
          \E outs \in [DOMAIN parcels_to_scrape -> {"ok", "ok_page_id", "nav_error"}] :
              RunScrape(failed_shards, outs)
    \/ RunSave
    \/ RunSaved
    \/ RunReturn
    \/ HourTick

RunSpec == RunInit /\ [][RunNext]_vars

\* hours between the end of a run and the start of the next one
RerunDelays == {CACHE_HOURS - 1, CACHE_HOURS, CACHE_HOURS + 1}

\* scrape_pinellas_properties is called again, some hours after the run
\* before it returned, for the same search: the task starts with fresh locals
\* (87-107) on the store as the earlier run left it
RunAgain(hours) ==
    /\ runPc = "returned"
    /\ clock <= CACHE_HOURS + MaxTicks
    /\ clock' = clock + hours
    /\ runPc' = "search"
    /\ run_parcels' = <<>>
    /\ cached_parcels' = {}
    /\ parcels_to_scrape' = <<>>
    /\ properties' = <<>>
    /\ saved' = 0
    /\ property_ids' = <<>>
    /\ cached_count' = 0
    /\ freshness_queries' = 0
    /\ run_result' = <<>>
    /\ UNCHANGED <<store, search_criteria, limit, found>>
    /\ UNCHANGED <<pipeVars, scrapeVars, upsertVars, crawlVars, stageVars, kwVars>>

RerunInit ==
    /\ RunInit
    /\ search_criteria = [city |-> "Clearwater"]
    /\ limit = 0
    /\ store = <<>>

RerunNext ==
    \/ RunNext
    \/ \E hours \in RerunDelays : RunAgain(hours)

\* a scrape run followed by a second run of the same search
RerunSpec == RerunInit /\ [][RerunNext]_vars

(***************************************************************************)
(* The bulk upsert (bulk_upsert_properties, pcpao_importer.py 134-210).    *)
(***************************************************************************)
\* the fields of update_fields (170-175) that the model's rows carry
UpdateFields == {"address", "owner_name"}

\* valid_properties = [p for p in properties if p.get('parcel_id')]
ValidProperties_NoFilter(props) == props
ValidProperties(props) == SelectSeq(props, LAMBDA q : Get(q, "parcel_id", "") # "")

\* the batched reads 162-165 issue: one filter(parcel_id__in=parcel_ids)
UpsertReads_PerRecord(parcel_ids) == Len(parcel_ids)
UpsertReads(parcel_ids) == 1

\* the instance the batched read loads for a row
Loaded(st, k) ==
    [parcel_id |-> k, address |-> st[k].address, owner_name |-> st[k].owner_name,
     appraiser_url |-> st[k].appraiser_url, last_scraped |-> st[k].last_scraped]

\* existing_records = {p.parcel_id: p for p in filter(parcel_id__in=parcel_ids)}
ExistingRecords(st, parcel_ids) ==
    [k \in Range(parcel_ids) \cap DOMAIN st |-> Loaded(st, k)]

\* every field of update_fields is set, a field the record lacks to blank
SetFields_Overwrite(existing, prop) ==
    [f \in DOMAIN existing |->
        IF f \in UpdateFields THEN Get(prop, f, "") ELSE existing[f]]

\* for field in update_fields: if field in prop: setattr(existing, field, ...)
SetFields(existing, prop) ==
    [f \in DOMAIN existing |->
        IF f \in UpdateFields /\ f \in DOMAIN prop THEN prop[f] ELSE existing[f]]

\* PropertyListing(parcel_id=parcel_id, **rest): the fields the record does
\* not carry take the column defaults
NewInstance(prop) ==
    [parcel_id |-> prop.parcel_id, address |-> Get(prop, "address", ""),
     owner_name |-> Get(prop, "owner_name", "None"),
     appraiser_url |-> Get(prop, "appraiser_url", "None")]

\* the loop of 177-194 from its i-th record on: the loaded instances as
\* mutated, the instances to create, and the keys of properties_to_update
RECURSIVE SeparateFrom(_, _, _, _, _)
SeparateFrom(valid, i, loaded, new, to_update) ==
    IF i > Len(valid)
    THEN [existing |-> loaded, new |-> new, to_update |-> to_update]
    ELSE LET prop == valid[i]
             parcel_id == prop.parcel_id
         IN  IF parcel_id \in DOMAIN loaded
             THEN SeparateFrom(valid, i + 1,
                               [loaded EXCEPT ![parcel_id] = SetFields(@, prop)],
                               new, Append(to_update, parcel_id))
             ELSE SeparateFrom(valid, i + 1, loaded,
                               Append(new, NewInstance(prop)), to_update)

\* bulk_create(new_properties): parcel_id is unique, so two instances with
\* one key, or a key some row already has, is an IntegrityError
HasConflict(st, new) ==
    \/ \E a, b \in DOMAIN new : a # b /\ new[a].parcel_id = new[b].parcel_id
    \/ \E a \in DOMAIN new : new[a].parcel_id \in DOMAIN st
BulkCreate_Truncate(st, new, t) ==
    [k \in {new[a].parcel_id : a \in DOMAIN new} |->
        LET inst == new[CHOOSE a \in DOMAIN new : new[a].parcel_id = k]
        IN  [address |-> inst.address, owner_name |-> inst.owner_name,
             appraiser_url |-> inst.appraiser_url, last_scraped |-> t]]
BulkCreate(st, new, t) ==
    [k \in DOMAIN st \cup {new[a].parcel_id : a \in DOMAIN new} |->
        IF k \in DOMAIN st THEN st[k]
        ELSE LET inst == new[CHOOSE a \in DOMAIN new : new[a].parcel_id = k]
             IN  [address |-> inst.address, owner_name |-> inst.owner_name,
                  appraiser_url |-> inst.appraiser_url, last_scraped |-> t]]

\* bulk_update(properties_to_update, update_fields): the rows of the given
\* instances get the instances' update_fields
BulkUpdate(st, loaded, to_update) ==
    [k \in DOMAIN st |->
        IF k \in Range(to_update)
        THEN [f \in DOMAIN st[k] |->
                 IF f \in UpdateFields THEN loaded[k][f] ELSE st[k][f]]
        ELSE st[k]]

\* 148-194: the records without a key are dropped; nothing left returns the
\* zero stats; otherwise one batched read loads the existing rows and the
\* loop separates the records
UpsertBegin ==
    /\ upsertPc = "call"
    /\ store_at_call' = store
    /\ LET valid_properties == ValidProperties(batch)
       IN  IF valid_properties = <<>>
           THEN /\ upsertPc' = "returned"
                /\ UNCHANGED <<existing_records, new_properties,
                               properties_to_update, db_reads>>
           ELSE IF \E i \in DOMAIN valid_properties :
                      "parcel_id" \notin DOMAIN valid_properties[i]
           THEN \* p['parcel_id'] raises KeyError
                /\ upsertPc' = "raised"
                /\ UNCHANGED <<existing_records, new_properties,
                               properties_to_update, db_reads>>
           ELSE LET parcel_ids == [i \in DOMAIN valid_properties |->
                                      valid_properties[i].parcel_id]
                    sep == SeparateFrom(valid_properties, 1,
                                        ExistingRecords(store, parcel_ids),
                                        <<>>, <<>>)
                IN  /\ db_reads' = db_reads + UpsertReads(parcel_ids)
                    /\ existing_records' = sep.existing
                    /\ new_properties' = sep.new
                    /\ properties_to_update' = sep.to_update
                    /\ upsertPc' = "create"
    /\ UNCHANGED <<upsert_calls, batch, stats, db_inserts, db_updates>>
    /\ UNCHANGED <<store, clock>>
    /\ UNCHANGED <<runPc, search_criteria, limit, found, run_parcels,
                   cached_parcels, parcels_to_scrape, properties, saved,
                   property_ids, cached_count, freshness_queries, run_result>>
    /\ UNCHANGED <<pipeVars, scrapeVars, crawlVars, stageVars, kwVars>>

\* 196-199: bulk_create; an IntegrityError leaves transaction.atomic() with
\* nothing written and reaches the caller
UpsertCreate ==
    /\ upsertPc = "create"
    /\ IF new_properties = <<>>
       THEN /\ upsertPc' = "update"
            /\ UNCHANGED <<store, stats, db_inserts>>
       ELSE /\ db_inserts' = db_inserts + 1
            /\ IF HasConflict(store, new_properties)
               THEN /\ upsertPc' = "raised"
                    /\ UNCHANGED <<store, stats>>
               ELSE /\ store' = BulkCreate(store, new_properties, clock)
                    /\ stats' = [stats EXCEPT !.created = Len(new_properties)]
                    /\ upsertPc' = "update"
    /\ UNCHANGED <<upsert_calls, batch, existing_records, new_properties, properties_to_update,
                   db_reads, db_updates, store_at_call, clock>>
    /\ UNCHANGED <<runPc, search_criteria, limit, found, run_parcels,
                   cached_parcels, parcels_to_scrape, properties, saved,
                   property_ids, cached_count, freshness_queries, run_result>>
    /\ UNCHANGED <<pipeVars, scrapeVars, crawlVars, stageVars, kwVars>>

\* 201-210: bulk_update, the transaction commits, the stats are returned
UpsertUpdate ==
    /\ upsertPc = "update"
    /\ IF properties_to_update = <<>>
       THEN UNCHANGED <<store, stats, db_updates>>
       ELSE /\ store' = BulkUpdate(store, existing_records, properties_to_update)
            /\ stats' = [stats EXCEPT !.updated = Len(properties_to_update)]
            /\ db_updates' = db_updates + 1
    /\ upsertPc' = "returned"
    /\ UNCHANGED <<upsert_calls, batch, existing_records, new_properties, properties_to_update,
                   db_reads, db_inserts, store_at_call, clock>>
    /\ UNCHANGED <<runPc, search_criteria, limit, found, run_parcels,
                   cached_parcels, parcels_to_scrape, properties, saved,
                   property_ids, cached_count, freshness_queries, run_result>>
    /\ UNCHANGED <<pipeVars, scrapeVars, crawlVars, stageVars, kwVars>>

Rollback_None(st, at_call) == st

\* leaving `with transaction.atomic():` (160) by an exception rolls back what
\* the block wrote: on a store no one else writes to, the rows are those of
\* the moment the block was entered
Rollback(st, at_call) == at_call

\* the database fails one of the three statements of the block: the batched
\* read (162-165), bulk_create (197) or bulk_update (202-206).  Nothing
\* catches the error inside bulk_upsert_properties: it leaves the atomic
\* block, which rolls back, and reaches the caller; no statement is reissued
UpsertDbError ==
    /\ \/ /\ upsertPc = "call"
          /\ ValidProperties(batch) # <<>>
          /\ \A i \in DOMAIN ValidProperties(batch) :
                 "parcel_id" \in DOMAIN ValidProperties(batch)[i]
          /\ db_reads' = db_reads + 1
          /\ store_at_call' = store
          /\ store' = store
          /\ UNCHANGED <<db_inserts, db_updates>>
       \/ /\ upsertPc = "create"
          /\ new_properties # <<>>
          /\ db_inserts' = db_inserts + 1
          /\ store' = Rollback(store, store_at_call)
          /\ UNCHANGED <<db_reads, db_updates, store_at_call>>
       \/ /\ upsertPc = "update"
          /\ properties_to_update # <<>>
          /\ db_updates' = db_updates + 1
          /\ store' = Rollback(store, store_at_call)
          /\ UNCHANGED <<db_reads, db_inserts, store_at_call>>
    /\ upsertPc' = "raised"
    /\ UNCHANGED <<upsert_calls, batch, existing_records, new_properties, properties_to_update,
                   stats, clock>>
    /\ UNCHANGED <<runPc, search_criteria, limit, found, run_parcels,
                   cached_parcels, parcels_to_scrape, properties, saved,
                   property_ids, cached_count, freshness_queries, run_result>>
    /\ UNCHANGED <<pipeVars, scrapeVars, crawlVars, stageVars, kwVars>>

\* the save loop of a scrape run in another worker stores the record of
\* candidate i (scrape_data.py 163-192)
SaveScraped(i, outcome) ==
    /\ upsertPc \in {"call", "create", "update"}
    /\ saved < MaxSave
    /\ saved' = saved + 1
    /\ LET property_data == ScrapePropertyDetails(Candidate(i).parcel_id,
                                                  Candidate(i).detail_url, outcome)
       IN  store' = UpdateOrCreate(store, property_data.parcel_id,
                                   Defaults(property_data), clock)
    /\ UNCHANGED <<clock, runPc, search_criteria, limit, found, run_parcels,
                   cached_parcels, parcels_to_scrape, properties,
                   property_ids, cached_count, freshness_queries, run_result>>
    /\ UNCHANGED <<pipeVars, scrapeVars, upsertVars, crawlVars, stageVars, kwVars>>

\* the keys, addresses and records the batches are made of
BatchKeys == {Candidate(i).parcel_id : i \in 1..MaxBatch}
BatchAddresses == {"1 Main St", "2 Oak Ave"}
BatchRecords ==
    {[parcel_id |-> k, address |-> a] : k \in BatchKeys \cup {""}, a \in BatchAddresses}
        \cup {[parcel_id |-> k] : k \in BatchKeys \cup {""}}
        \cup {[parcel_id |-> k, appraiser_url |-> "https://www.pcpao.gov/new"] :
                  k \in BatchKeys}
        \cup {[address |-> a] : a \in BatchAddresses}

\* bulk_upsert_properties is called with a batch of at most MaxBatch of the
\* given records on a store that holds rows of some of the keys
UpsertCalled(records) ==
    /\ PipeInit
    /\ StageIdle
    /\ KwIdle
    /\ CrawlIdle
    /\ ScrapeIdle
    /\ clock = CACHE_HOURS + 1
    /\ \E S \in SUBSET BatchKeys : store = [k \in S |-> OldRow(0)]
    /\ runPc = "idle"
    /\ search_criteria = <<>>
    /\ limit = 0
    /\ found = <<>>
    /\ run_parcels = <<>>
    /\ cached_parcels = {}
    /\ parcels_to_scrape = <<>>
    /\ properties = <<>>
    /\ saved = 0
    /\ property_ids = <<>>
    /\ cached_count = 0
    /\ freshness_queries = 0
    /\ run_result = <<>>
    /\ upsertPc = "call"
    /\ \E n \in 0..MaxBatch : batch \in [1..n -> records]
    /\ existing_records = <<>>
    /\ new_properties = <<>>
    /\ properties_to_update = <<>>
    /\ stats = [created |-> 0, updated |-> 0]
    /\ db_reads = 0
    /\ db_inserts = 0
    /\ db_updates = 0
    /\ store_at_call = <<>>
    /\ upsert_calls = 1

UpsertInit == UpsertCalled(BatchRecords)

\* the batches tried while other writers are active: one address, keyed and
\* keyless records
StoreInit ==
    UpsertCalled({[parcel_id |-> k, address |-> "1 Main St"] : k \in BatchKeys}
                    \cup {[address |-> "1 Main St"]})

UpsertNext ==
    \/ UpsertBegin
    \/ UpsertCreate
    \/ UpsertUpdate

\* one call of bulk_upsert_properties, alone on the store
UpsertSpec == UpsertInit /\ [][UpsertNext]_vars

\* the caller hands the same batch to bulk_upsert_properties once more after
\* the call has returned: a new call starts with fresh locals and stats (157)
UpsertAgain ==
    /\ upsertPc = "returned"
    /\ upsert_calls < 2
    /\ upsert_calls' = upsert_calls + 1
    /\ upsertPc' = "call"
    /\ existing_records' = <<>>
    /\ new_properties' = <<>>
    /\ properties_to_update' = <<>>
    /\ stats' = [created |-> 0, updated |-> 0]
    /\ db_reads' = 0
    /\ db_inserts' = 0
    /\ db_updates' = 0
    /\ UNCHANGED <<batch, store_at_call, store, clock>>
    /\ UNCHANGED <<runPc, search_criteria, limit, found, run_parcels,
                   cached_parcels, parcels_to_scrape, properties, saved,
                   property_ids, cached_count, freshness_queries, run_result>>
    /\ UNCHANGED <<pipeVars, scrapeVars, crawlVars, stageVars, kwVars>>

UpsertTwiceNext ==
    \/ UpsertBegin
    \/ UpsertCreate
    \/ UpsertUpdate
    \/ UpsertAgain

\* a batch applied by bulk_upsert_properties and then applied again
UpsertTwiceSpec == UpsertInit /\ [][UpsertTwiceNext]_vars

UpsertFaultNext ==
    \/ UpsertBegin
    \/ UpsertCreate
    \/ UpsertUpdate
    \/ UpsertDbError

\* one call of bulk_upsert_properties on a database that may fail any of its
\* statements
UpsertFaultSpec == UpsertInit /\ [][UpsertFaultNext]_vars

StoreNext ==
    \/ UpsertBegin
    \/ UpsertCreate
    \/ UpsertUpdate
    \/ \E i \in 1..MaxBatch, outcome \in {"ok", "ok_page_id"} : SaveScraped(i, outcome)

\* one call of bulk_upsert_properties while scrape runs save to the store
StoreSpec == StoreInit /\ [][StoreNext]_vars

(***************************************************************************)
(* The record crawler (PCPAOScraper.search_properties_with_urls,           *)
(* pcpao_scraper.py 73-102 and 116-274).  Link texts and hrefs are         *)
(* strings, matched character by character.                                *)
(***************************************************************************)

BASE_URL == "https://www.pcpao.gov/"

Digits == {"0", "1", "2", "3", "4", "5", "6", "7", "8", "9"}

Whitespace == {" ", "\n", "\t"}

\* r'^\d{2}-\d{2}-\d{2}-\d{5}-\d{3}-\d{4}$', one token per character
parcel_pattern ==
    <<"d", "d", "-", "d", "d", "-", "d", "d", "-",
      "d", "d", "d", "d", "d", "-", "d", "d", "d", "-", "d", "d", "d", "d">>

\* the pattern without its closing $: any text that starts with a key
MatchesParcelPattern_NoAnchor(text) ==
    /\ Len(text) >= Len(parcel_pattern)
    /\ \A i \in DOMAIN parcel_pattern :
          IF parcel_pattern[i] = "d"
          THEN SubSeq(text, i, i) \in Digits
          ELSE SubSeq(text, i, i) = parcel_pattern[i]

\* parcel_pattern.match(text): anchored at the start; $ matches at the end of
\* the text or just before one closing newline
MatchesParcelPattern(text) ==
    /\ \/ Len(text) = Len(parcel_pattern)
       \/ /\ Len(text) = Len(parcel_pattern) + 1
          /\ SubSeq(text, Len(text), Len(text)) = "\n"
    /\ \A i \in DOMAIN parcel_pattern :
          IF parcel_pattern[i] = "d"
          THEN SubSeq(text, i, i) \in Digits
          ELSE SubSeq(text, i, i) = parcel_pattern[i]

RECURSIVE LStrip(_, _)
\* str.lstrip(chars)
LStrip(text, chars) ==
    IF Len(text) > 0 /\ SubSeq(text, 1, 1) \in chars
    THEN LStrip(SubSeq(text, 2, Len(text)), chars)
    ELSE text

RECURSIVE RStrip(_, _)
\* str.rstrip(chars)
RStrip(text, chars) ==
    IF Len(text) > 0 /\ SubSeq(text, Len(text), Len(text)) \in chars
    THEN RStrip(SubSeq(text, 1, Len(text) - 1), chars)
    ELSE text

\* link.get_text(strip=True) of a link holding one text node
GetText(link) == RStrip(LStrip(link.text, Whitespace), Whitespace)

\* href.startswith(prefix)
StartsWith(text, prefix) ==
    /\ Len(text) >= Len(prefix)
    /\ SubSeq(text, 1, Len(prefix)) = prefix

\* the CSS attribute selector a[href*="property-details"]
IsDetailLink(link) ==
    \E i \in 1..Len(link.href) :
        /\ i + Len("property-details") - 1 <= Len(link.href)
        /\ SubSeq(link.href, i, i + Len("property-details") - 1) = "property-details"

\* href if href.startswith('http') else BASE_URL + href.lstrip('/')
DetailUrl(href) ==
    IF StartsWith(href, "http") THEN href ELSE BASE_URL \o LStrip(href, {"/"})

RECURSIVE ExtractFrom(_, _, _, _)
\* the loop of _extract_parcels_from_page from link i on
ExtractFrom(links, i, existing_ids, new_found) ==
    IF i > Len(links)
    THEN [found |-> new_found, existing_ids |-> existing_ids]
    ELSE LET link == links[i]
             text == GetText(link)
         IN IF /\ IsDetailLink(link)
               /\ MatchesParcelPattern(text)
               /\ text \notin existing_ids
            THEN ExtractFrom(links, i + 1, existing_ids \cup {text},
                     Append(new_found, [parcel_id |-> text,
                                    detail_url |-> DetailUrl(link.href)]))
            ELSE ExtractFrom(links, i + 1, existing_ids, new_found)

\* the extraction with a seen-set of its own for every page
ExtractParcelsFromPage_Fresh(links, existing_ids) ==
    [found |-> ExtractFrom(links, 1, {}, <<>>).found,
     existing_ids |-> existing_ids \cup ExtractFrom(links, 1, {}, <<>>).existing_ids]

\* _extract_parcels_from_page(existing_ids) on a page showing these links
ExtractParcelsFromPage(links, existing_ids) ==
    ExtractFrom(links, 1, existing_ids, <<>>)

MAX_PAGES == 100

SearchOutcomes == {"links", "no_links", "timeout", "error"}

\* a wait that gives up raises out of the search
ExitTo_Raise(reason) ==
    IF reason \in {"no_links", "timeout"} THEN "raised" ELSE "done"

\* where the search goes when it leaves its try block for this reason: the
\* two returns of the result wait (186, 193), the breaks of the loop (249,
\* 256) and the except clause (265-271) all come to `return parcels` (274)
ExitTo(reason) == "done"

\* 124-197: the search is submitted and the first page is awaited and read;
\* without a result link within the waits (184-186, 191-193), or on any
\* exception (265), the search ends with the empty list
CrawlSearch(outcome) ==
    /\ crawlPc = "searching"
    /\ IF outcome = "links"
       THEN /\ pages # <<>>
            /\ \E i \in DOMAIN pages[1] : IsDetailLink(pages[1][i])
            /\ LET first_page == ExtractParcelsFromPage(pages[1], seen_ids)
               IN /\ crawl_parcels' = crawl_parcels \o first_page.found
                  /\ seen_ids' = first_page.existing_ids
            /\ page_num' = 1
            /\ extracted' = 1
            /\ crawlPc' = "paginating"
            /\ UNCHANGED crawl_exit
       ELSE /\ crawlPc' = ExitTo(outcome)
            /\ crawl_exit' = outcome
            /\ UNCHANGED <<page_num, seen_ids, crawl_parcels, extracted>>
    /\ UNCHANGED <<pages, crawl_result, calls, earlier_keys, stale_count>>
    /\ UNCHANGED <<pipeVars, scrapeVars, runVars, upsertVars, stageVars, kwVars>>

NextOutcomes == {"next", "no_next", "stale", "click_error", "error"}

\* 205-263: one turn of the pagination loop
CrawlNextPage(outcome) ==
    /\ crawlPc = "paginating"
    /\ IF page_num >= MAX_PAGES
       THEN /\ outcome = "no_next"
            /\ crawlPc' = ExitTo("max_pages")
            /\ crawl_exit' = "max_pages"
            /\ UNCHANGED <<page_num, seen_ids, crawl_parcels, extracted, stale_count>>
       ELSE IF outcome = "next"
       THEN /\ page_num < Len(pages)
            /\ LET page_parcels == ExtractParcelsFromPage(pages[page_num + 1], seen_ids)
               IN /\ crawl_parcels' = crawl_parcels \o page_parcels.found
                  /\ seen_ids' = page_parcels.existing_ids
                  /\ crawlPc' = IF page_parcels.found = <<>>
                                THEN ExitTo("empty_page") ELSE "paginating"
                  /\ crawl_exit' = IF page_parcels.found = <<>> THEN "empty_page" ELSE crawl_exit
            /\ page_num' = page_num + 1
            /\ extracted' = extracted + 1
            /\ stale_count' = 0
       ELSE IF outcome = "stale"
       THEN /\ page_num < Len(pages)
            /\ stale_count' = IF stale_count < MaxStale THEN stale_count + 1 ELSE stale_count
            /\ crawlPc' = "backoff"
            /\ UNCHANGED <<page_num, seen_ids, crawl_parcels, extracted, crawl_exit>>
       ELSE IF outcome = "click_error"
       THEN /\ page_num < Len(pages)
            /\ page_num' = page_num + 1
            /\ crawlPc' = ExitTo("error")
            /\ crawl_exit' = "error"
            /\ UNCHANGED <<seen_ids, crawl_parcels, extracted, stale_count>>
       ELSE /\ outcome = "no_next" => page_num >= Len(pages)
            /\ crawlPc' = ExitTo(outcome)
            /\ crawl_exit' = outcome
            /\ UNCHANGED <<page_num, seen_ids, crawl_parcels, extracted, stale_count>>
    /\ UNCHANGED <<pages, crawl_result, calls, earlier_keys>>
    /\ UNCHANGED <<pipeVars, scrapeVars, runVars, upsertVars, stageVars, kwVars>>

\* 258-261: after a stale element, time.sleep(1) and continue
CrawlRetry ==
    /\ crawlPc = "backoff"
    /\ crawlPc' = "paginating"
    /\ UNCHANGED <<pages, page_num, seen_ids, crawl_parcels, extracted, crawl_result,
                   calls, earlier_keys, crawl_exit, stale_count>>
    /\ UNCHANGED <<pipeVars, scrapeVars, runVars, upsertVars, stageVars, kwVars>>

\* return parcels
CrawlReturn ==
    /\ crawlPc = "done"
    /\ crawl_result' = crawl_parcels
    /\ crawlPc' = "returned"
    /\ UNCHANGED <<pages, page_num, seen_ids, crawl_parcels, extracted, calls,
                   earlier_keys, crawl_exit, stale_count>>
    /\ UNCHANGED <<pipeVars, scrapeVars, runVars, upsertVars, stageVars, kwVars>>

\* 121-122: the same scraper searches the same site again, with new locals
CrawlCall ==
    /\ crawlPc = "returned"
    /\ calls < MaxCalls
    /\ calls' = calls + 1
    /\ earlier_keys' = earlier_keys \cup {crawl_result[i].parcel_id : i \in DOMAIN crawl_result}
    /\ crawl_parcels' = <<>>
    /\ seen_ids' = {}
    /\ page_num' = 0
    /\ extracted' = 0
    /\ crawl_result' = <<>>
    /\ crawl_exit' = ""
    /\ stale_count' = 0
    /\ crawlPc' = "searching"
    /\ UNCHANGED pages
    /\ UNCHANGED <<pipeVars, scrapeVars, runVars, upsertVars, stageVars, kwVars>>

\* the links a result page can show
LinkCatalogue ==
    { [text |-> "14-31-15-91961-004-0110", href |-> "/property-details?s=1"],
      [text |-> "14-31-15-91961-004-0120",
       href |-> "https://www.pcpao.gov/property-details?s=2"],
      [text |-> "  15-29-16-00000-130-0100\n", href |-> "property-details?s=3"],
      [text |-> "invalid-format", href |-> "/property-details?s=4"],
      [text |-> "123456", href |-> "//www.pcpao.gov/property-details?s=5"],
      [text |-> "14-31-15-91961-004-01100", href |-> "/property-details?s=6"],
      [text |-> "14-31-15-9196A-004-0110", href |-> "/property-details?s=7"],
      [text |-> "14-31-15-91961-004-0140", href |-> "/owner-details?s=8"] }

\* a search starts on a site whose result pages show catalogue links
CrawlInit ==
    /\ PipeInit
    /\ StageIdle
    /\ KwIdle
    /\ ScrapeIdle
    /\ RunIdle
    /\ UpsertIdle
    /\ crawlPc = "searching"
    /\ \E n \in 0..MaxLinks : \E links \in [1..n -> LinkCatalogue] : \E cut \in 0..n :
          pages = IF cut = n
                  THEN <<links>>
                  ELSE <<SubSeq(links, 1, cut), SubSeq(links, cut + 1, n)>>
    /\ page_num = 0
    /\ seen_ids = {}
    /\ crawl_parcels = <<>>
    /\ extracted = 0
    /\ crawl_result = <<>>
    /\ calls = 1
    /\ earlier_keys = {}
    /\ crawl_exit = ""
    /\ stale_count = 0

CrawlNext ==
    \/ \E outcome \in SearchOutcomes : CrawlSearch(outcome)
    \/ \E outcome \in NextOutcomes : CrawlNextPage(outcome)
    \/ CrawlRetry
    \/ CrawlReturn
    \/ CrawlCall

CrawlSpec == CrawlInit /\ [][CrawlNext]_vars

\* the search runs in one thread, which always takes its next step
CrawlFairSpec == CrawlSpec /\ WF_vars(CrawlNext)

(***************************************************************************)
(* The entry points that open browser sessions: scrape_by_criteria         *)
(* (pcpao_scraper.py 687-726), which hands two or more candidates to the   *)
(* scheduler above, the scrape stage (scrape_data.py 78-209) and           *)
(* TaxCollectorScraper.scrape_batch (tax_collector_scraper.py 198-212).    *)
(***************************************************************************)

\* what the first block of an entry point can do: run through, fail in
\* setup_driver (no driver was created), or let an exception escape the
\* search after the driver was created (the search catches Exception only)
SearchRuns == {"ok", "setup_error", "search_error"}

\* 698-708: self.setup_driver(), the search, the cut to `limit`, and in the
\* finally clause self.close_driver(); an exception leaves scrape_by_criteria
CriteriaSearch(run) ==
    /\ critPc = "call"
    /\ sessions' = IF run = "setup_error" THEN sessions
                   ELSE CloseSession(UseSession(OpenSession(sessions, "self"),
                                                "self", "main"), "self")
    /\ IF run = "ok"
       THEN /\ crit_parcels' = CutToLimit(crit_found, crit_limit)
            /\ critPc' = "details"
       ELSE /\ critPc' = "raised"
            /\ UNCHANGED crit_parcels
    /\ UNCHANGED <<crit_limit, crit_found, crit_result, taxPc, tax_ids, tax_data_list>>
    /\ UNCHANGED <<schedVars, pipeVars, runVars, upsertVars, crawlVars, stageVars, kwVars>>

\* 711-726: nothing found, one candidate, or the call of
\* scrape_properties_parallel(parcels, max_workers=max_workers)
CriteriaDispatch ==
    /\ critPc = "details"
    /\ IF crit_parcels = <<>>
       THEN /\ crit_result' = <<>>
            /\ critPc' = "returned"
            /\ UNCHANGED <<parcels, mainPc, outcomes>>
       ELSE IF Len(crit_parcels) = 1
       THEN /\ critPc' = "single"
            /\ UNCHANGED <<crit_result, parcels, mainPc, outcomes>>
       ELSE /\ parcels' = crit_parcels
            /\ outcomes' = [i \in DOMAIN crit_parcels |-> "-"]
            /\ mainPc' = "call"
            /\ critPc' = "parallel"
            /\ UNCHANGED crit_result
    /\ UNCHANGED <<crit_limit, crit_found, crit_parcels, taxPc, tax_ids, tax_data_list>>
    /\ UNCHANGED <<max_workers, chunks, wpc, wpos, wresults, future, consumed,
                   results, output, sessions>>
    /\ UNCHANGED <<pipeVars, runVars, upsertVars, crawlVars, stageVars, kwVars>>

\* 714-724: the single candidate is extracted on a scraper of its own, whose
\* session the finally clause closes
CriteriaSingle(ok, outcome) ==
    /\ critPc = "single"
    /\ IF ok
       THEN /\ sessions' = CloseSession(UseSession(OpenSession(sessions, "single_scraper"),
                                                   "single_scraper", "main"),
                                        "single_scraper")
            /\ crit_result' = <<ScrapePropertyDetails(crit_parcels[1].parcel_id,
                                                      crit_parcels[1].detail_url, outcome)>>
            /\ critPc' = "returned"
       ELSE /\ outcome = "ok"
            /\ critPc' = "raised"
            /\ UNCHANGED <<sessions, crit_result>>
    /\ UNCHANGED <<crit_limit, crit_found, crit_parcels, taxPc, tax_ids, tax_data_list>>
    /\ UNCHANGED <<schedVars, pipeVars, runVars, upsertVars, crawlVars, stageVars, kwVars>>

\* 726: return what scrape_properties_parallel returned
CriteriaReturn ==
    /\ critPc = "parallel"
    /\ mainPc = "returned"
    /\ crit_result' = output
    /\ critPc' = "returned"
    /\ UNCHANGED <<crit_limit, crit_found, crit_parcels, taxPc, tax_ids, tax_data_list>>
    /\ UNCHANGED <<schedVars, sessions, pipeVars, runVars, upsertVars, crawlVars, stageVars, kwVars>>

\* scrape_batch 199-201: self.setup_driver(); when it raises, the finally
\* clause finds no driver to quit
BatchSetup(ok) ==
    /\ taxPc = "call"
    /\ IF ok
       THEN /\ sessions' = OpenSession(sessions, "tax_scraper")
            /\ taxPc' = "loop"
       ELSE /\ taxPc' = "raised"
            /\ UNCHANGED sessions
    /\ UNCHANGED <<critPc, crit_limit, crit_found, crit_parcels, crit_result,
                   tax_ids, tax_data_list>>
    /\ UNCHANGED <<schedVars, pipeVars, runVars, upsertVars, crawlVars, stageVars, kwVars>>

\* scrape_batch 203-207: scrape_tax_info catches every exception and returns
\* tax_data, with the amount when the page gave one
BatchScrape(has_amount) ==
    /\ taxPc = "loop"
    /\ Len(tax_data_list) < Len(tax_ids)
    /\ LET parcel_id == tax_ids[Len(tax_data_list) + 1]
           basic == [parcel_id |-> parcel_id, tax_status |-> "Unknown"]
       IN  tax_data_list' = Append(tax_data_list,
                                   IF has_amount
                                   THEN [parcel_id |-> parcel_id, tax_status |-> "Paid",
                                         tax_amount |-> 1200]
                                   ELSE basic)
    /\ sessions' = UseSession(sessions, "tax_scraper", "main")
    /\ UNCHANGED <<critPc, crit_limit, crit_found, crit_parcels, crit_result,
                   taxPc, tax_ids>>
    /\ UNCHANGED <<schedVars, pipeVars, runVars, upsertVars, crawlVars, stageVars, kwVars>>

\* scrape_batch 209-212: finally self.close_driver(); return tax_data_list
BatchClose ==
    /\ taxPc = "loop"
    /\ Len(tax_data_list) = Len(tax_ids)
    /\ sessions' = CloseSession(sessions, "tax_scraper")
    /\ taxPc' = "returned"
    /\ UNCHANGED <<critPc, crit_limit, crit_found, crit_parcels, crit_result,
                   tax_ids, tax_data_list>>
    /\ UNCHANGED <<schedVars, pipeVars, runVars, upsertVars, crawlVars, stageVars, kwVars>>

\* scrape_batch 209-210: an exception that scrape_tax_info does not catch (it
\* catches Exception) or that interrupts time.sleep passes through the finally
\* clause, which closes the session
BatchRaise ==
    /\ taxPc = "loop"
    /\ Len(tax_data_list) < Len(tax_ids)
    /\ sessions' = CloseSession(sessions, "tax_scraper")
    /\ taxPc' = "raised"
    /\ UNCHANGED <<critPc, crit_limit, crit_found, crit_parcels, crit_result,
                   tax_ids, tax_data_list>>
    /\ UNCHANGED <<schedVars, pipeVars, runVars, upsertVars, crawlVars, stageVars, kwVars>>

\* one of the entry points is called: scrape_by_criteria with a limit (0 for
\* None) on a search that finds the first n candidates, the scrape stage, or
\* scrape_batch with the first n keys
EntryInit ==
    \/ RunInit
    \/ /\ PipeInit /\ CrawlIdle /\ RunIdle /\ UpsertIdle /\ StageIdle /\ KwIdle
       /\ parcels = <<>> /\ mainPc = "idle" /\ chunks = <<>> /\ wpc = <<>>
       /\ wpos = <<>> /\ wresults = <<>> /\ outcomes = <<>> /\ future = <<>>
       /\ consumed = <<>> /\ results = <<>> /\ output = <<>>
       /\ sessions = <<>>
       /\ crit_parcels = <<>> /\ crit_result = <<>> /\ tax_data_list = <<>>
       /\ \/ /\ critPc = "call"
             /\ max_workers \in 1..MaxWorkers
             /\ crit_limit \in 0..2
             /\ \E n \in 0..MaxParcels : crit_found = [i \in 1..n |-> Candidate(i)]
             /\ taxPc = "idle" /\ tax_ids = <<>>
          \/ /\ taxPc = "call"
             /\ \E n \in 0..MaxParcels : tax_ids = [i \in 1..n |-> Candidate(i).parcel_id]
             /\ critPc = "idle" /\ max_workers = 1 /\ crit_limit = 0 /\ crit_found = <<>>

EntryNext ==
    \/ \E run \in SearchRuns : CriteriaSearch(run)
    \/ CriteriaDispatch
    \/ \E ok \in BOOLEAN, outcome \in DetailOutcomes : CriteriaSingle(ok, outcome)
    \/ CriteriaReturn
    \/ ScrapeNext
    \/ RunNext
    \/ \E ok \in BOOLEAN : BatchSetup(ok)
    \/ \E has_amount \in BOOLEAN : BatchScrape(has_amount)
    \/ BatchClose
    \/ BatchRaise

EntrySpec == EntryInit /\ [][EntryNext]_vars

(***************************************************************************)
(* Properties of the pipeline orchestrator.                                *)
(***************************************************************************)
K == Len(chainTasks)
StageState(i) == taskState[frozenId[i]]
StageInfo(i) == taskInfo[frozenId[i]]
\* the descriptor a query of task_id finds
Found(t) == CacheGet(t).present
DescIds(t) == CacheGet(t).value.task_ids
DescTotal(t) == CacheGet(t).value.total_tasks
SucceededIn(ids) == {i \in DOMAIN ids : taskState[ids[i]] = "SUCCESS"}
FailedIn(ids) == {i \in DOMAIN ids : taskState[ids[i]] = "FAILURE"}

\* C1: a status query that finds the descriptor of a chain one of whose
\* stages is in FAILURE answers state FAILURE, and its status message is the
\* error text of that stage.
C1_FailureShortCircuits ==
    [][\A t \in TaskIds :
          (Query(t) /\ Found(t) /\ FailedIn(DescIds(t)) # {}) =>
              /\ response'.state = "FAILURE"
              /\ \E i \in FailedIn(DescIds(t)) :
                    response'.status = Str(taskInfo[DescIds(t)[i]])]_vars

C1_Witness ==
    /\ queried = runId /\ queried # NoId /\ Found(queried)
    /\ \E i \in 2..K : /\ StageState(i) = "FAILURE"
                       /\ response.state = "FAILURE"
                       /\ response.status = ErrorText(chainTasks[i])

\* C2: a status query on a chain answers SUCCESS exactly when every stage
\* the descriptor lists is in SUCCESS, and the result it then carries is the
\* result of the last stage of the list.
C2_SuccessIffAllSucceeded ==
    [][\A t \in TaskIds :
          (Query(t) /\ Found(t)) =>
              /\ response'.state = "SUCCESS" <=>
                    SucceededIn(DescIds(t)) = DOMAIN DescIds(t)
              /\ response'.state = "SUCCESS" =>
                    response'.result = taskInfo[DescIds(t)[Len(DescIds(t))]]]_vars

C2_Witness ==
    /\ queried = runId /\ queried # NoId /\ Found(queried)
    /\ \A i \in 1..K : StageState(i) = "SUCCESS"
    /\ response.state = "SUCCESS"
    /\ response.status = "All tasks completed"
    /\ response.result = StageInfo(K)

\* the percent the active stage self-reports (0 while it is PENDING, or when
\* its meta carries no `current`)
SelfReported(tid) ==
    IF taskState[tid] = "PROGRESS" THEN taskInfo[tid].current ELSE 0

\* C3: a status query on a K-stage chain whose first c stages are in SUCCESS
\* and whose next stage is active with self-reported percent p answers
\* percent floor(c*(100/K) + p/K); a PENDING active stage contributes 0; for
\* K = 4, c = 1, p = 50 the percent is 37.
C3_ProgressFormula ==
    [][\A t \in TaskIds :
          (Query(t) /\ Found(t) /\ FailedIn(DescIds(t)) = {}
                    /\ SucceededIn(DescIds(t)) # DOMAIN DescIds(t)) =>
              LET c == Cardinality(SucceededIn(DescIds(t)))
                  p == SelfReported(DescIds(t)[c + 1])
              IN  /\ response'.state = "PROGRESS"
                  /\ response'.current = (100 * c + p) \div DescTotal(t)
                  /\ taskState[DescIds(t)[c + 1]] = "PENDING" =>
                        response'.current = (100 * c) \div DescTotal(t)
                  /\ ChainProgress(4, 1, 50) = 37]_vars

C3_Witness ==
    /\ queried = runId /\ queried # NoId /\ Found(queried)
    /\ response.state = "PROGRESS"
    /\ response.step >= 2
    /\ StageState(response.step) = "PROGRESS"
    /\ StageInfo(response.step).current > 0
    /\ response.current =
          (100 * (response.step - 1) + StageInfo(response.step).current) \div K

\* C4: the percent a status query returns is always within 0..100.
C4_PercentInRange ==
    queried # NoId => (response.current \in 0..100 /\ response.total = 100)

C4_Witness ==
    /\ queried = runId /\ queried # NoId
    /\ response.state = "PROGRESS"
    /\ response.current > 80
    /\ response.current < 100

\* the work of stage i failed: the stage raised, or the PDF build of the
\* listing-PDF stage raised
WorkFailed(i) ==
    \/ StageState(i) = "FAILURE"
    \/ /\ chainTasks[i] = "generate_listing_pdf"
       /\ StageState(i) = "SUCCESS"
       /\ StageInfo(i).pdf_path = "None"

\* C5: a run one of whose stages failed in its work (for instance the PDF
\* build of the listing-PDF stage raised) is never reported as SUCCESS by the
\* status query.
C5_FailedStageNeverSuccess ==
    (queried # NoId /\ queried = runId /\ response.state = "SUCCESS"
        /\ response.status = "All tasks completed") =>
        \A i \in 1..K : ~WorkFailed(i)

\* C6: once any stage of a run has been enqueued or started, the descriptor
\* is stored under the first stage's id, lists exactly the ids the stages
\* execute under, in chain order, with total_tasks = len(task_ids), is
\* readable until its TTL expires, and the returned run id is task_ids[0].
C6_DescriptorBeforeEnqueue ==
    (queue # {} \/ running # {} \/ \E t \in TaskIds : taskState[t] # "PENDING") =>
        /\ cache[frozenId[1]].present
        /\ cache[frozenId[1]].value.task_ids = frozenId
        /\ cache[frozenId[1]].value.total_tasks = Len(frozenId)
        /\ cache[frozenId[1]].expires <= ChainTTL + now
        /\ now < cache[frozenId[1]].expires => Found(frozenId[1])
        /\ runId = cache[frozenId[1]].value.task_ids[1]
        /\ \A t \in TaskIds \ {frozenId[1]} : ~cache[t].present

C6_Witness ==
    /\ running # {}
    /\ K = 6
    /\ Found(runId)
    /\ DescIds(runId) = frozenId

\* C7: stages run strictly in chain order: a stage leaves PENDING (or runs)
\* only when the stage before it is in SUCCESS, at most one stage is running
\* or enqueued at a time, and after a failed stage no later stage runs.
C7_ChainOrder ==
    /\ Cardinality(running \cup queue) <= 1
    /\ \A i \in 2..K :
          (StageState(i) # "PENDING" \/ i \in running \/ i \in queue) =>
              StageState(i - 1) = "SUCCESS"
    /\ \A i \in 1..K : StageState(i) = "FAILURE" =>
          \A j \in (i + 1)..K :
              StageState(j) = "PENDING" /\ j \notin running /\ j \notin queue

C7_Witness ==
    \E i \in 2..K : /\ StageState(i) = "FAILURE"
                    /\ StageState(i - 1) = "SUCCESS"
                    /\ running = {} /\ queue = {}

FailedWorkers == {w \in DOMAIN future : future[w] = "exception"}
\* the worker whose shard holds candidate i (1-based)
OwnerOf(i) == CHOOSE w \in DOMAIN chunks : \E j \in DOMAIN chunks[w] : chunks[w][j].index = i - 1
\* the candidates whose worker returned its results
Delivered == {i \in DOMAIN parcels : OwnerOf(i) \notin FailedWorkers}
\* the record scrape_property_details gave for candidate i
Extracted(i) ==
    ScrapePropertyDetails(parcels[i].parcel_id, parcels[i].detail_url, outcomes[i])
\* the position of candidate i among the delivered candidates
RankOf(i) == Cardinality({j \in Delivered : j < i}) + 1

ExtractionFailed ==
    {i \in DOMAIN parcels : outcomes[i] \in {"nav_error", "parse_error", "late_error"}}

SetupFailed == {w \in DOMAIN chunks : future[w] = "exception" /\ wpos[w] = 0}
\* the candidates assigned to workers that returned their results
Kept == {i \in DOMAIN parcels : future[OwnerOf(i)] = "result"}

\* C11: when a worker fails fatally, scrape_properties_parallel still returns
\* (it never raises and always reaches its return), and what it returns holds
\* the record of every candidate of the other workers, in input order, and
\* nothing of the failed worker's shard.
C11_FatalWorkerDegradesOwnShard ==
    /\ <>(mainPc = "returned")
    /\ [](mainPc # "raised")
    /\ [](mainPc = "returned" =>
            /\ Len(output) = Cardinality(Kept)
            /\ \A i \in Kept : \E a \in DOMAIN output : output[a] = Extracted(i)
            /\ \A a, b \in DOMAIN output : \A i, j \in Kept :
                  (output[a] = Extracted(i) /\ output[b] = Extracted(j) /\ i < j)
                      => a < b)

\* the first of two workers could not set up its session; the second
\* worker's candidate is returned
C11_Witness ==
    /\ mainPc = "returned"
    /\ Len(parcels) >= 3
    /\ Len(chunks) = 2
    /\ SetupFailed = {1}
    /\ future[2] = "result"
    /\ output = <<Extracted(2)>>

(***************************************************************************)
(* Properties of the scrape run and its freshness check.                   *)
(***************************************************************************)
\* the keys of the candidates of the run
RunKeys == {run_parcels[i].parcel_id : i \in DOMAIN run_parcels}
\* the freshness check has been made
Checked == runPc \in {"scrape", "save", "finish"}
              \/ (runPc = "returned" /\ run_parcels # <<>>)

\* C12: the freshness check partitions the candidates into fresh and stale:
\* a candidate is fresh exactly when the store holds a row with its key whose
\* last_scraped is >= now - CACHE_HOURS at the check; each candidate is either
\* fresh or handed to the scraper, never both; only stale candidates are
\* scraped and saved; the fresh keys are returned and their rows are not
\* touched by the run.
C12_FreshnessPartition ==
    /\ [][(runPc = "check" /\ runPc' \in {"scrape", "finish"}) =>
            /\ \A k \in RunKeys :
                  k \in cached_parcels' <=>
                      (k \in DOMAIN store
                          /\ store[k].last_scraped >= clock - CACHE_HOURS)
            /\ cached_parcels' \subseteq RunKeys]_vars
    /\ [](Checked =>
            /\ \A i \in DOMAIN run_parcels :
                  (run_parcels[i].parcel_id \in cached_parcels)
                      # (run_parcels[i] \in Range(parcels_to_scrape))
            /\ Range(parcels_to_scrape) \subseteq Range(run_parcels)
            /\ \A a, b \in DOMAIN parcels_to_scrape :
                  a < b => \E i, j \in DOMAIN run_parcels :
                              /\ i < j
                              /\ run_parcels[i] = parcels_to_scrape[a]
                              /\ run_parcels[j] = parcels_to_scrape[b])
    /\ [](runPc \in {"save", "finish", "returned"} =>
            /\ \A a \in DOMAIN properties :
                  \E b \in DOMAIN parcels_to_scrape :
                      properties[a].parcel_id \in
                          {parcels_to_scrape[b].parcel_id,
                           PageParcel(parcels_to_scrape[b].parcel_id)}
            /\ \A k \in cached_parcels :
                  /\ k \in Range(property_ids)
                  \* still the row of the earlier run (a save stamps `clock`)
                  /\ store[k].last_scraped < CACHE_HOURS)
    /\ [](runPc = "returned" =>
            cached_parcels \subseteq Range(run_result.property_ids))

\* two candidates: the first was refreshed exactly CACHE_HOURS ago and is
\* fresh, the second is stale and goes to the scraper
C12_Witness ==
    /\ runPc = "scrape"
    /\ Len(run_parcels) = 2
    /\ cached_parcels = {run_parcels[1].parcel_id}
    /\ store[run_parcels[1].parcel_id].last_scraped = clock - CACHE_HOURS
    /\ run_parcels[2].parcel_id \in DOMAIN store
    /\ parcels_to_scrape = <<run_parcels[2]>>

\* C13 as stated: every run that returns has issued exactly one store query
\* for the freshness check.
C13_OneQueryPerRun ==
    runPc = "returned" => freshness_queries = 1

\* C13 (amended): a run that finds at least one candidate issues exactly one
\* store query for the freshness check, whatever the number of candidates; a
\* run that finds none, or whose search fails, issues none.
C13_OneQueryPerCheck ==
    freshness_queries = IF Checked THEN 1 ELSE 0

C13_Witness ==
    /\ runPc = "returned"
    /\ Len(run_parcels) >= 2
    /\ freshness_queries = 1

\* C14: every result a run returns carries cached_count and scraped_count,
\* and len(property_ids) = cached_count + scraped_count.
C14_CountsAddUp ==
    runPc = "returned" =>
        /\ {"property_ids", "cached_count", "scraped_count"} \subseteq DOMAIN run_result
        /\ Len(run_result.property_ids)
              = run_result.cached_count + run_result.scraped_count

(***************************************************************************)
(* Properties of the bulk upsert and of the store.                         *)
(***************************************************************************)
\* a record with a key
Keyed(r) == "parcel_id" \in DOMAIN r /\ r.parcel_id # ""
\* the positions of the batch that hold keyed records, split by whether the
\* store had a row with their key when the call was made
KeyedIdx == {i \in DOMAIN batch : Keyed(batch[i])}
AbsentIdx == {i \in KeyedIdx : batch[i].parcel_id \notin DOMAIN store_at_call}
PresentIdx == KeyedIdx \ AbsentIdx
KeyedKeys == {batch[i].parcel_id : i \in KeyedIdx}
\* the last record of the batch with the key of record i
LastWithKey(i) ==
    CHOOSE j \in KeyedIdx :
        /\ batch[j].parcel_id = batch[i].parcel_id
        /\ \A m \in KeyedIdx : batch[m].parcel_id = batch[i].parcel_id => m <= j

\* C15: every call returns, with created = the number of keyed records whose
\* key the store did not hold before the call and updated = the number whose
\* key it held (so all-new batches give created = len, updated = 0, and
\* all-existing batches created = 0, updated = len).
C15_CreatedUpdatedCounts ==
    /\ upsertPc # "raised"
    /\ upsertPc = "returned" =>
          /\ stats.created = Cardinality(AbsentIdx)
          /\ stats.updated = Cardinality(PresentIdx)

\* C16 as stated: a call issues exactly one batched read, and at most one
\* batched insert and one batched update.
C16_ExactlyOneRead ==
    upsertPc \in {"returned", "raised"} =>
        /\ db_reads = 1
        /\ db_inserts <= 1
        /\ db_updates <= 1

\* C16 (amended): a call issues exactly one batched read when some record of
\* the batch has a key and none otherwise, at most one batched insert (one
\* exactly when some keyed record is new) and at most one batched update (one
\* exactly when some keyed record exists), whatever the number of records.
C16_ConstantQueries ==
    /\ db_reads <= 1 /\ db_inserts <= 1 /\ db_updates <= 1
    /\ upsertPc # "call" => db_reads = IF KeyedIdx # {} THEN 1 ELSE 0
    /\ upsertPc \in {"update", "returned", "raised"} =>
          db_inserts = IF AbsentIdx # {} THEN 1 ELSE 0
    /\ upsertPc = "returned" =>
          db_updates = IF PresentIdx # {} THEN 1 ELSE 0
    /\ upsertPc = "raised" => db_updates = 0

\* a new and an existing key in one batch: one read, one insert, one update
C16_Witness ==
    /\ upsertPc = "returned"
    /\ Len(batch) = 2
    /\ AbsentIdx # {} /\ PresentIdx # {}
    /\ db_reads = 1 /\ db_inserts = 1 /\ db_updates = 1

\* C17: every call returns, and then for every key that occurs in the batch
\* the store holds the row with that key, whose updatable fields are those
\* of the last record of the batch with that key, also when a key occurs
\* more than once.
C17_LatestValuePerKey ==
    /\ upsertPc # "raised"
    /\ upsertPc = "returned" =>
          \A i \in KeyedIdx :
              /\ batch[i].parcel_id \in DOMAIN store
              /\ \A f \in UpdateFields \cap DOMAIN batch[LastWithKey(i)] :
                    store[batch[i].parcel_id][f] = batch[LastWithKey(i)][f]

\* C18: records without a key are dropped: the counts add up to the number of
\* keyed records, no row other than those of the keyed records' keys is
\* created or changed, a batch of keyless records only returns the zero
\* stats without touching the store, and a call raises only on a conflict
\* between keyed records, never because of a keyless one.
C18_KeylessDropped ==
    /\ upsertPc = "returned" =>
          stats.created + stats.updated = Cardinality(KeyedIdx)
    /\ upsertPc # "call" =>
          /\ DOMAIN store \ KeyedKeys = DOMAIN store_at_call \ KeyedKeys
          /\ \A k \in DOMAIN store \ KeyedKeys : store[k] = store_at_call[k]
          /\ "" \notin DOMAIN store
    /\ (upsertPc # "call" /\ KeyedIdx = {}) =>
          /\ upsertPc = "returned"
          /\ stats = [created |-> 0, updated |-> 0]
          /\ store = store_at_call
          /\ db_reads = 0 /\ db_inserts = 0 /\ db_updates = 0
    /\ upsertPc = "raised" =>
          \E i, j \in AbsentIdx : i # j /\ batch[i].parcel_id = batch[j].parcel_id

\* a record with an empty key next to a new keyed record: one row created
C18_Witness ==
    /\ upsertPc = "returned"
    /\ Len(batch) = 2
    /\ "parcel_id" \in DOMAIN batch[1] /\ batch[1].parcel_id = ""
    /\ 2 \in AbsentIdx
    /\ stats = [created |-> 1, updated |-> 0]
    /\ DOMAIN store = DOMAIN store_at_call \cup {batch[2].parcel_id}

\* C19: the set of keys of the store never shrinks: whatever the bulk upsert
\* and the scrape runs' saves do, in any interleaving, every key the store
\* holds before a step it still holds after it.
C19_KeysNeverShrink ==
    [][DOMAIN store \subseteq DOMAIN store']_vars

\* both writers have created rows and the rows the call found are still there
C19_Witness ==
    /\ upsertPc = "returned"
    /\ stats.created >= 1
    /\ saved >= 1
    /\ store_at_call # <<>>
    /\ DOMAIN store_at_call \subseteq DOMAIN store
    /\ Cardinality(DOMAIN store) >= Cardinality(DOMAIN store_at_call) + 2

(***************************************************************************)
(* Properties of the record crawler.                                       *)
(***************************************************************************)

\* the characters from..from+n-1 of s are all decimal digits
DigitGroup(s, from, n) == \A k \in from..(from + n - 1) : SubSeq(s, k, k) \in Digits

\* s has the shape NN-NN-NN-NNNNN-NNN-NNNN
IsParcelKey(s) ==
    /\ Len(s) = 23
    /\ DigitGroup(s, 1, 2) /\ SubSeq(s, 3, 3) = "-"
    /\ DigitGroup(s, 4, 2) /\ SubSeq(s, 6, 6) = "-"
    /\ DigitGroup(s, 7, 2) /\ SubSeq(s, 9, 9) = "-"
    /\ DigitGroup(s, 10, 5) /\ SubSeq(s, 15, 15) = "-"
    /\ DigitGroup(s, 16, 3) /\ SubSeq(s, 19, 19) = "-"
    /\ DigitGroup(s, 20, 4)

\* url names a scheme and a host
IsAbsolute(url) == StartsWith(url, "http://") \/ StartsWith(url, "https://")

\* the result links shown on the pages the crawler has read
SeenLinks ==
    {pages[p][i] : <<p, i>> \in
        {<<q, j>> \in (1..extracted) \X (1..MaxLinks) :
            j <= Len(pages[q]) /\ IsDetailLink(pages[q][j])}}

\* the link texts among them that have the shape of a key
SeenKeys == {GetText(link) : link \in {l \in SeenLinks : IsParcelKey(GetText(l))}}

ReturnedKeys == {crawl_result[i].parcel_id : i \in DOMAIN crawl_result}

\* C20: when the crawler has returned, every returned key has the shape
\* NN-NN-NN-NNNNN-NNN-NNNN, no link text of another shape is returned, every
\* key-shaped text of a result link on a page the crawler read is returned,
\* and every returned entry carries an absolute detail URL that ends with the
\* href of a link showing that key.
C20_OnlyPatternKeysReturned ==
    crawlPc = "returned" =>
        /\ \A i \in DOMAIN crawl_result :
              /\ IsParcelKey(crawl_result[i].parcel_id)
              /\ IsAbsolute(crawl_result[i].detail_url)
              /\ \E link \in SeenLinks :
                    /\ GetText(link) = crawl_result[i].parcel_id
                    /\ LET path == LStrip(link.href, {"/"})
                           url == crawl_result[i].detail_url
                       IN /\ Len(url) >= Len(path)
                          /\ SubSeq(url, Len(url) - Len(path) + 1, Len(url)) = path
        /\ ReturnedKeys = SeenKeys

\* C20 witness: the crawler returned a key it found behind a relative href
\* on a second page, having also read a result link whose text is no key
C20_Witness ==
    /\ crawlPc = "returned"
    /\ extracted = 2
    /\ \E link \in SeenLinks : ~IsParcelKey(GetText(link))
    /\ \E i \in DOMAIN crawl_result :
          \E link \in SeenLinks :
              /\ ~StartsWith(link.href, "http")
              /\ GetText(link) = crawl_result[i].parcel_id
              /\ crawl_result[i].detail_url # link.href

\* C21: one call never returns the same key twice: the list a search is
\* building holds each key once and exactly the keys of its seen-set, a search
\* starts with an empty seen-set, and a key an earlier call returned is
\* returned again by a later call that sees it.
C21_NoKeyTwicePerCall ==
    /\ \A i, j \in DOMAIN crawl_parcels :
          i # j => crawl_parcels[i].parcel_id # crawl_parcels[j].parcel_id
    /\ {crawl_parcels[i].parcel_id : i \in DOMAIN crawl_parcels} = seen_ids
    /\ crawlPc = "searching" => seen_ids = {}
    /\ crawlPc = "returned" =>
          /\ \A i, j \in DOMAIN crawl_result :
                i # j => crawl_result[i].parcel_id # crawl_result[j].parcel_id
          /\ SeenKeys \cap earlier_keys \subseteq ReturnedKeys

\* C21 witness: a second call returned a key the first call had returned,
\* after reading two pages that both show one key
C21_Witness ==
    /\ crawlPc = "returned"
    /\ calls = 2
    /\ extracted = 2
    /\ ReturnedKeys \cap earlier_keys # {}
    /\ \E i \in DOMAIN pages[1], j \in DOMAIN pages[2] :
          /\ IsDetailLink(pages[1][i]) /\ IsDetailLink(pages[2][j])
          /\ GetText(pages[1][i]) = GetText(pages[2][j])
          /\ GetText(pages[1][i]) \in ReturnedKeys

\* C22: every search terminates: a call that has started returns, and the
\* pagination loop never goes beyond the maximum page count.
C22_SearchTerminates ==
    /\ (crawlPc = "searching") ~> (crawlPc = "returned")
    /\ [](page_num <= MAX_PAGES /\ extracted <= MAX_PAGES)

\* C26: a stale element while advancing from one page is retried at most
\* once: the loop never backs off for a second stale element on the same page.
C26_StaleRetriedAtMostOnce ==
    crawlPc = "backoff" => stale_count <= 1

\* C23: when no result link renders within the waits after the search is
\* submitted, the search raises nothing and returns the empty list.
C23_NoResultsReturnsEmpty ==
    crawl_exit \in {"no_links", "timeout"} =>
        /\ crawlPc \in {"done", "returned"}
        /\ crawl_parcels = <<>>
        /\ crawl_result = <<>>

\* C23 witness: a search of a site that has result links returned after the
\* wait for them timed out
C23_Witness ==
    /\ crawlPc = "returned"
    /\ crawl_exit = "timeout"
    /\ crawl_result = <<>>
    /\ pages # <<>>
    /\ \E i \in DOMAIN pages[1] : IsDetailLink(pages[1][i])

\* C27: an unexpected exception during a search propagates to the caller: a
\* search that met one never returns a list.
C27_UnexpectedExceptionPropagates ==
    crawl_exit = "error" => crawlPc \notin {"done", "returned"}

(***************************************************************************)
(* Properties of the browser sessions.                                     *)
(***************************************************************************)

\* C29: no session is driven by two workers or threads: every session has at
\* most one user, the caller's own session is driven by the caller alone,
\* and every worker that has extracted a candidate has done so on a session
\* that it alone drives.
C29_SessionsNotShared ==
    /\ \A x \in DOMAIN sessions : Cardinality(sessions[x].users) <= 1
    /\ "self" \in DOMAIN sessions => sessions["self"].users \subseteq {"main"}
    /\ \A w \in DOMAIN wpos :
          wpos[w] > 0 =>
              \E x \in DOMAIN sessions \ {"self"} : sessions[x].users = {WorkerName(w)}

\* C29 witness: two workers have each extracted a candidate while both of
\* their sessions are open
C29_Witness ==
    \E v, w \in DOMAIN wpos :
        /\ v # w
        /\ wpos[v] > 0 /\ wpos[w] > 0
        /\ \E x, y \in DOMAIN sessions :
              /\ x # y
              /\ sessions[x] = [state |-> "open", users |-> {WorkerName(v)}]
              /\ sessions[y] = [state |-> "open", users |-> {WorkerName(w)}]

\* the candidate whose record is entry j of worker w's results
ResultCandidate(w, j) == parcels[wresults[w][j][1] + 1]

\* C24 as stated: scrape_property_details never raises and never returns
\* None, and the record it returns holds the key it was called with.
C24_RecordHoldsRequestedKey ==
    \A w \in DOMAIN wresults :
        /\ future[w] = "exception" => wpos[w] \in {0, Len(chunks[w])}
        /\ \A j \in DOMAIN wresults[w] :
              /\ IsDict(wresults[w][j][2])
              /\ "parcel_id" \in DOMAIN wresults[w][j][2]
              /\ wresults[w][j][2].parcel_id = ResultCandidate(w, j).parcel_id

\* C24 amended: scrape_property_details never raises and never returns None;
\* the record it returns holds a parcel id, which is the key it was called
\* with unless the page printed a well-formed parcel id, which then replaces
\* it.
C24_RecordHoldsAKey ==
    \A w \in DOMAIN wresults :
        /\ future[w] = "exception" => wpos[w] \in {0, Len(chunks[w])}
        /\ \A j \in DOMAIN wresults[w] :
              LET record == wresults[w][j][2]
                  outcome == outcomes[wresults[w][j][1] + 1]
              IN  /\ IsDict(record)
                  /\ "parcel_id" \in DOMAIN record
                  /\ IsParcelKey(record.parcel_id)
                  /\ outcome \notin {"ok_page_id", "late_error"} =>
                        record.parcel_id = ResultCandidate(w, j).parcel_id

\* C24 witness: for candidates that came without a detail URL, one
\* extraction failed before any field was set and one read another parcel id
\* from the page; both gave a record
C24_Witness ==
    /\ Len(parcels) = 2
    /\ parcels[1].detail_url = "None"
    /\ \E w \in DOMAIN wresults : \E j \in DOMAIN wresults[w] :
          /\ outcomes[wresults[w][j][1] + 1] = "nav_error"
          /\ wresults[w][j][2] = [parcel_id |-> ResultCandidate(w, j).parcel_id]
    /\ \E w \in DOMAIN wresults : \E j \in DOMAIN wresults[w] :
          /\ outcomes[wresults[w][j][1] + 1] = "ok_page_id"
          /\ wresults[w][j][2].parcel_id # ResultCandidate(w, j).parcel_id

(***************************************************************************)
(* Properties of the entry points and their browser sessions.              *)
(***************************************************************************)

\* an operation that opens sessions has ended, by returning or by raising
OperationEnded ==
    \/ critPc \in {"returned", "raised"}
    \/ mainPc = "returned"
    \/ runPc \in {"returned", "raised"}
    \/ taxPc \in {"returned", "raised"}

OpenSessions == {x \in DOMAIN sessions : sessions[x].state = "open"}

\* C30: every session that was opened (the search session, each worker's
\* session, the single-candidate session, the tax batch session) is closed
\* when scrape_by_criteria, scrape_properties_parallel, the scrape stage or
\* scrape_batch has returned or raised
C30_NoSessionLeftOpen == OperationEnded => OpenSessions = {}

\* an operation ended by an exception after its session had been opened, and
\* a parallel run ended with the sessions of the search and of two workers
C30_Witness ==
    \/ /\ critPc = "raised"
       /\ "self" \in DOMAIN sessions
    \/ /\ taxPc = "raised"
       /\ "tax_scraper" \in DOMAIN sessions
       /\ tax_data_list # <<>>

C30_WitnessParallel ==
    /\ critPc = "returned"
    /\ Cardinality(DOMAIN sessions) >= 3
    /\ \E w \in DOMAIN future : future[w] = "exception"
    /\ OpenSessions = {}

\* the sessions opened by the workers of scrape_properties_parallel
WorkerSessions == {x \in DOMAIN sessions : \E w \in 1..3 : x = WorkerScraper(w)}

\* C28: when exactly one candidate is to be scraped the parallel path is not
\* used, in scrape_by_criteria and in the scrape stage alike: no worker
\* session exists and the candidate is extracted in one session
C28_SingleCandidateSkipsParallel ==
    /\ critPc \in {"single", "returned"} /\ Len(crit_parcels) = 1
          => WorkerSessions = {} /\ mainPc = "idle"
    /\ runPc \in {"save", "finish", "returned"} /\ Len(parcels_to_scrape) = 1
          => WorkerSessions = {}

\* the part of C28 that scrape_by_criteria keeps: its single candidate is
\* extracted on the session of single_scraper and no worker is started
C28_CriteriaSingleSession ==
    critPc = "returned" /\ Len(crit_parcels) = 1
        => /\ WorkerSessions = {} /\ mainPc = "idle"
           /\ "single_scraper" \in DOMAIN sessions
           /\ Len(crit_result) = 1

\* the candidates the limit lets through: the first min(L, n) in search order
WithinLimit(fnd, lim) == 1..(IF lim < Len(fnd) THEN lim ELSE Len(fnd))

\* positions, in the search result, of the candidates scrape_by_criteria has
\* attempted to extract: the single candidate once its session exists, and in
\* the parallel path the candidates a worker has called
\* scrape_property_details for
CriteriaAttempted ==
    IF Len(crit_parcels) = 1
    THEN IF "single_scraper" \in DOMAIN sessions THEN {1} ELSE {}
    ELSE {i \in DOMAIN outcomes : outcomes[i] # "-"}

\* the candidates of the scrape stage whose shard got a session
RunAttempted ==
    {i \in DOMAIN found :
        \E k \in DOMAIN parcels_to_scrape :
            /\ parcels_to_scrape[k] = found[i]
            /\ WorkerScraper(((k - 1) % 3) + 1) \in DOMAIN sessions}

\* the worker that got candidate i of scrape_by_criteria could not open its
\* session
CriteriaShardFailed(i) ==
    \E w \in DOMAIN chunks :
        /\ \E k \in DOMAIN chunks[w] : chunks[w][k].index = i - 1
        /\ WorkerScraper(w) \notin DOMAIN sessions

\* C25 as stated: with limit L >= 1 and n candidates found, extraction is
\* attempted for exactly the first min(L, n) candidates and at most L records
\* are returned, by scrape_by_criteria and by the scrape stage
C25_ExactlyFirstMinAttempted ==
    /\ critPc = "returned" /\ crit_limit >= 1
          => /\ CriteriaAttempted = WithinLimit(crit_found, crit_limit)
             /\ Len(crit_result) <= crit_limit
    /\ runPc = "returned" /\ limit >= 1
          => /\ RunAttempted = WithinLimit(found, limit)
             /\ Len(run_result.property_ids) <= limit

\* C25 amended: only the first min(L, n) candidates are considered and at
\* most L records are returned; each of them is attempted except those whose
\* worker could not open its session and, in the scrape stage, those that are
\* fresh in the cache
C25_OnlyFirstMinAttempted ==
    /\ critPc = "returned" /\ crit_limit >= 1
          => /\ CriteriaAttempted \subseteq WithinLimit(crit_found, crit_limit)
             /\ \A i \in WithinLimit(crit_found, crit_limit) \ CriteriaAttempted :
                    CriteriaShardFailed(i)
             /\ Len(crit_result) <= crit_limit
    /\ runPc = "returned" /\ limit >= 1
          => /\ RunAttempted \subseteq WithinLimit(found, limit)
             /\ \A i \in WithinLimit(found, limit) \ RunAttempted :
                    \/ found[i].parcel_id \in cached_parcels
                    \/ \E k \in DOMAIN parcels_to_scrape :
                          /\ parcels_to_scrape[k] = found[i]
                          /\ WorkerScraper(((k - 1) % 3) + 1) \notin DOMAIN sessions
             /\ Len(run_result.property_ids) <= limit

\* a search that found three candidates under a limit of two: the first two
\* were extracted and two records returned
C25_Witness ==
    /\ critPc = "returned"
    /\ crit_limit = 2
    /\ Len(crit_found) = 3
    /\ CriteriaAttempted = {1, 2}
    /\ Len(crit_result) = 2

\* the same in the scrape stage: two candidates found under a limit of one,
\* the first one extracted
C25_WitnessRun ==
    /\ runPc = "returned"
    /\ limit = 1
    /\ Len(found) = 2
    /\ RunAttempted = {1}
    /\ Len(run_result.property_ids) = 1

(***************************************************************************)
(* Further properties of the status query.                                 *)
(***************************************************************************)
\* C36: the status query is read-only: a query changes neither the
\* descriptor nor the state, self-reported percent, description or result of
\* any stage, nor the queue and the running stages, so queries interleaved
\* with a run leave the run as it is.
C36_QueryIsReadOnly ==
    [][\A t \in TaskIds :
          Query(t) => UNCHANGED <<pc, chainTasks, frozenId, task_ids, cache, runId,
                                  queue, running, taskState, taskInfo, now>>]_vars

\* a query by the run id answered while a stage was running and between two
\* progress reports of it
C36_Witness ==
    /\ queried = runId /\ queried # NoId
    /\ response.state = "PROGRESS"
    /\ running # {}
    /\ \E i \in running : StageState(i) = "PROGRESS" /\ StageInfo(i).current > 0

\* C37: a status query by the run id of a submitted chain never answers
\* SUCCESS while some stage of the chain has not succeeded, also after the
\* descriptor has expired.
C37_NoSuccessBeforeAllSucceeded ==
    [][(runId # NoId /\ Query(runId) /\ response'.state = "SUCCESS")
          => \A i \in 1..K : StageState(i) = "SUCCESS"]_vars

\* the same while the descriptor is readable
C37_NoSuccessWhileDescriptorLives ==
    [][(runId # NoId /\ Query(runId) /\ Found(runId) /\ response'.state = "SUCCESS")
          => \A i \in 1..K : StageState(i) = "SUCCESS"]_vars

\* C38: of two successive status queries by the run id the later one never
\* returns a smaller percent (stage percents are non-decreasing and stage
\* states only move forward in every run).
C38_PercentNeverDecreases ==
    [][(runId # NoId /\ Query(runId) /\ queried = runId)
          => response'.current >= response.current]_vars

\* the same while the descriptor is readable
C38_PercentMonotoneWhileDescriptorLives ==
    [][(runId # NoId /\ Query(runId) /\ queried = runId /\ Found(runId))
          => response'.current >= response.current]_vars

(***************************************************************************)
(* Further properties of the bulk upsert.                                  *)
(***************************************************************************)
\* C33: when the batched read, the insert or the update of
\* bulk_upsert_properties fails, the error reaches the caller, no statement
\* was issued a second time, and the store holds exactly the rows it held
\* before the call.
C33_FailedUpsertLeavesStore ==
    upsertPc = "raised" =>
        /\ store = store_at_call
        /\ db_reads <= 1 /\ db_inserts <= 1 /\ db_updates <= 1

\* the update failed after the insert of the same call had been applied
C33_Witness ==
    /\ upsertPc = "raised"
    /\ db_inserts = 1 /\ db_updates = 1
    /\ stats.created >= 1
    /\ store = store_at_call

\* the store rows without the time stamps
FieldValues(st) ==
    [k \in DOMAIN st |-> [f \in DOMAIN st[k] \ {"last_scraped"} |-> st[k][f]]]

\* C35: the upsert is idempotent: every application of a batch returns, and
\* the second application of the same batch leaves the stored field values as
\* the first left them and returns created = 0 and updated = the number of
\* keyed records.
C35_UpsertIdempotent ==
    /\ upsertPc # "raised"
    /\ upsert_calls = 2 /\ upsertPc = "returned" =>
          /\ FieldValues(store) = FieldValues(store_at_call)
          /\ stats = [created |-> 0, updated |-> Cardinality(KeyedIdx)]

\* the same for the batches whose first application returns
C35_SecondApplicationChangesNothing ==
    /\ upsert_calls = 2 => upsertPc # "raised"
    /\ upsert_calls = 2 /\ upsertPc = "returned" =>
          /\ store = store_at_call
          /\ stats = [created |-> 0, updated |-> Cardinality(KeyedIdx)]

\* the records with the key of row k, and the last of them that carries
\* field f
WithKey(k) == {i \in KeyedIdx : batch[i].parcel_id = k}
LastCarrying(k, f) ==
    CHOOSE j \in WithKey(k) :
        /\ f \in DOMAIN batch[j]
        /\ \A m \in WithKey(k) : f \in DOMAIN batch[m] => m <= j

\* C39: for a key the store held before the call, the call changes only the
\* updatable fields that a record of the batch with that key carries (to the
\* value of the last such record); every other field of the row keeps its
\* stored value, and the rows of keys that are not in the batch are not
\* changed at all.
C39_OnlyPresentFieldsChange ==
    upsertPc = "returned" =>
        \A k \in DOMAIN store_at_call :
            /\ k \in DOMAIN store
            /\ \A f \in DOMAIN store_at_call[k] :
                  IF f \in UpdateFields /\ \E i \in WithKey(k) : f \in DOMAIN batch[i]
                  THEN store[k][f] = batch[LastCarrying(k, f)][f]
                  ELSE store[k][f] = store_at_call[k][f]

\* a batch with a record that carries only the key and a URL, and one with a
\* new address, for two rows the store holds: one row keeps every field, the
\* other changes its address alone
C39_Witness ==
    /\ upsertPc = "returned"
    /\ stats.updated = 2
    /\ \E k \in DOMAIN store_at_call :
          /\ \E i \in WithKey(k) : "appraiser_url" \in DOMAIN batch[i]
          /\ store[k] = store_at_call[k]
    /\ \E k \in DOMAIN store_at_call :
          /\ store[k].address # store_at_call[k].address
          /\ store[k].owner_name = store_at_call[k].owner_name
          /\ store[k].appraiser_url = store_at_call[k].appraiser_url

\* no key occurs twice in the batch
DistinctKeys ==
    \A i, j \in KeyedIdx : batch[i].parcel_id = batch[j].parcel_id => i = j

\* C32: an upsert that runs while another writer saves rows of the same keys
\* completes without error (as does the other writer), and when it has
\* returned every key of its batch has its one row.
C32_ConcurrentUpsertsComplete ==
    DistinctKeys =>
        /\ upsertPc # "raised"
        /\ upsertPc = "returned" =>
              \A i \in KeyedIdx : batch[i].parcel_id \in DOMAIN store

(***************************************************************************)
(* Further properties of the scrape run.                                   *)
(***************************************************************************)
ToScrapeKeys == {parcels_to_scrape[i].parcel_id : i \in DOMAIN parcels_to_scrape}

\* C34: a save of a run (create or update) stamps the row with the time of
\* the save, t; a run that finds the key and makes its freshness check
\* before t + CACHE_HOURS counts the key as cached and does not hand it to
\* the scraper, and a run that makes its check after t + CACHE_HOURS hands it
\* to the scraper again.
C34_FreshUntilTTL ==
    /\ [][\A k \in StoreKeys :
            (runPc = "save" /\ runPc' = "save" /\ k \in Range(property_ids')
                /\ property_ids' # property_ids
                /\ k = property_ids'[Len(property_ids')])
                => (k \in DOMAIN store' /\ store'[k].last_scraped = clock)]_vars
    /\ [][(runPc = "check" /\ runPc' \in {"scrape", "finish"}) =>
            \A k \in RunKeys \cap DOMAIN store :
                /\ clock < store[k].last_scraped + CACHE_HOURS
                      => (k \in cached_parcels' /\ k \notin ToScrapeKeys')
                /\ clock > store[k].last_scraped + CACHE_HOURS
                      => (k \notin cached_parcels' /\ k \in ToScrapeKeys')]_vars

\* the second run counted as cached a key the first run had saved (the rows
\* the store held before the first run are stamped earlier than its start),
\* and scrapes again another key that the first run saved more than
\* CACHE_HOURS before
C34_Witness ==
    /\ runPc = "scrape"
    /\ \E k \in cached_parcels :
          /\ store[k].last_scraped > CACHE_HOURS
          /\ clock < store[k].last_scraped + CACHE_HOURS
    /\ \E k \in ToScrapeKeys :
          /\ k \in DOMAIN store
          /\ store[k].last_scraped > CACHE_HOURS
          /\ clock > store[k].last_scraped + CACHE_HOURS

(***************************************************************************)
(* Keyword priorities: submit_keyword_order (KeywordSelection/views.py).   *)
(* A JSON value is a record tagged with its Python type.                   *)
(***************************************************************************)
MaxOrdered == 2

PyStr(s) == [kind |-> "str", v |-> s]
PyInt(n) == [kind |-> "int", v |-> n]
PyDict(name, priority) == [kind |-> "dict", name |-> name, priority |-> priority]
PyList(items) == [kind |-> "list", items |-> items]

KeywordNames == {"City", "Bedrooms"}

\* the entries a request can carry: well-formed ones, one whose name is
\* missing, one whose priority is a string, and an item that is no object
ValidEntries == {PyDict(PyStr(n), PyInt(p)) : n \in KeywordNames, p \in 1..2}
InvalidEntries == {PyDict(PyNone, PyInt(1)), PyDict(PyStr("City"), PyStr("high"))}
OrderedItems == ValidEntries \cup InvalidEntries \cup {PyStr("City")}

OrderedLists ==
    UNION {[1..n -> OrderedItems] : n \in 0..MaxOrdered}

\* request bodies: no JSON, a JSON array, and JSON objects with
\* ordered_keywords absent, a string, or a list
KeywordBodies ==
    {[method |-> "POST", json |-> "invalid"], [method |-> "POST", json |-> "array"],
     [method |-> "GET", json |-> "object", ordered_keywords |-> PyList(<<>>)],
     [method |-> "POST", json |-> "object"],
     [method |-> "POST", json |-> "object", ordered_keywords |-> PyStr("City")]}
    \cup {[method |-> "POST", json |-> "object", ordered_keywords |-> PyList(l)] :
             l \in OrderedLists}

\* data.get('ordered_keywords', [])
OrderedKeywords(data) ==
    IF "ordered_keywords" \in DOMAIN data THEN data.ordered_keywords ELSE PyList(<<>>)

\* isinstance(ordered_keywords, list) and all(isinstance(item, dict) ...)
ListOfDicts(ordered_keywords) ==
    /\ ordered_keywords.kind = "list"
    /\ \A i \in DOMAIN ordered_keywords.items : ordered_keywords.items[i].kind = "dict"

\* isinstance(name, str) and isinstance(priority, int)
ValidEntry(keyword_dict) ==
    keyword_dict.name.kind = "str" /\ keyword_dict.priority.kind = "int"

\* Keyword.objects.all().update(priority=0)
ResetAll(kws) == [n \in DOMAIN kws |-> 0]

\* Keyword.objects.update_or_create(name=name, defaults={'priority': priority})
KeywordUpdateOrCreate(kws, name, priority) ==
    [n \in DOMAIN kws \cup {name} |-> IF n = name THEN priority ELSE kws[n]]

KeywordTables == {("City" :> 2) @@ ("Bedrooms" :> 1), ("City" :> 1)}

KeywordInit ==
    /\ PipeInit
    /\ ScrapeIdle
    /\ RunIdle
    /\ UpsertIdle
    /\ CrawlIdle
    /\ StageIdle
    /\ kwPc = "call"
    /\ keywords \in KeywordTables
    /\ keywords_at_call = keywords
    /\ kw_body \in KeywordBodies
    /\ kw_pos = 0
    /\ kw_response = 0

\* lines 20-28 and 54-62: the method, the JSON parse and the format check
ParseKeywordOrder ==
    /\ kwPc = "call"
    /\ IF kw_body.method # "POST"
       THEN kw_response' = 405 /\ kwPc' = "responded"
       ELSE IF kw_body.json = "invalid"
       THEN kw_response' = 400 /\ kwPc' = "responded"
       ELSE IF kw_body.json # "object"
       THEN kw_response' = 500 /\ kwPc' = "responded"
       ELSE IF ~ListOfDicts(OrderedKeywords(kw_body))
       THEN kw_response' = 400 /\ kwPc' = "responded"
       ELSE kwPc' = "reset" /\ UNCHANGED kw_response
    /\ UNCHANGED <<keywords, kw_body, kw_pos, keywords_at_call>>
    /\ UNCHANGED <<pipeVars, scrapeVars, runVars, upsertVars, crawlVars, stageVars>>

\* line 31
ResetPriorities ==
    /\ kwPc = "reset"
    /\ keywords' = ResetAll(keywords)
    /\ kwPc' = "loop"
    /\ UNCHANGED <<kw_body, kw_pos, kw_response, keywords_at_call>>
    /\ UNCHANGED <<pipeVars, scrapeVars, runVars, upsertVars, crawlVars, stageVars>>

\* lines 35-49: one turn of the loop
UpdatePriority ==
    /\ kwPc = "loop"
    /\ kw_pos < Len(OrderedKeywords(kw_body).items)
    /\ LET keyword_dict == OrderedKeywords(kw_body).items[kw_pos + 1]
       IN  IF ValidEntry(keyword_dict)
           THEN /\ keywords' = KeywordUpdateOrCreate(keywords, keyword_dict.name.v,
                                                     keyword_dict.priority.v)
                /\ kw_pos' = kw_pos + 1
                /\ UNCHANGED <<kwPc, kw_response>>
           ELSE /\ kw_response' = 400
                /\ kwPc' = "responded"
                /\ UNCHANGED <<keywords, kw_pos>>
    /\ UNCHANGED <<kw_body, keywords_at_call>>
    /\ UNCHANGED <<pipeVars, scrapeVars, runVars, upsertVars, crawlVars, stageVars>>

\* line 52
RespondSuccess ==
    /\ kwPc = "loop"
    /\ kw_pos = Len(OrderedKeywords(kw_body).items)
    /\ kw_response' = 200
    /\ kwPc' = "responded"
    /\ UNCHANGED <<keywords, kw_body, kw_pos, keywords_at_call>>
    /\ UNCHANGED <<pipeVars, scrapeVars, runVars, upsertVars, crawlVars, stageVars>>

KeywordNext ==
    \/ ParseKeywordOrder
    \/ ResetPriorities
    \/ UpdatePriority
    \/ RespondSuccess

KeywordSpec == KeywordInit /\ [][KeywordNext]_vars

\* C40: a request that submit_keyword_order answers with status 400 leaves
\* every stored keyword priority as the request found it.
C40_RejectedRequestKeepsPriorities ==
    (kwPc = "responded" /\ kw_response = 400) => keywords = keywords_at_call

\* what the code does keep: a request rejected before the loop (no JSON, or
\* ordered_keywords not a list of objects) has written nothing
C40_RejectedBeforeResetKeepsPriorities ==
    (kwPc = "responded" /\ kw_response = 400
        /\ (kw_body.json = "invalid" \/ ~ListOfDicts(OrderedKeywords(kw_body))))
        => keywords = keywords_at_call

(***************************************************************************)
(* The tax and sort stages of the chain (scrape_tax_data,                  *)
(* generate_sorted_properties), run twice on the same scrape result while  *)
(* other runs save rows.  Of the sort stage's result, sorted_properties    *)
(* and excel_path are modelled; its columns, which fetch_property_listings *)
(* derives from the Keyword table, are left out.                           *)
(***************************************************************************)
Runs == 1..2

\* the columns of a row that the model carries (fetch_property_listings, 32-37)
ListingFields == {"parcel_id", "address", "owner_name", "appraiser_url", "last_scraped"}

\* rows in primary-key order; rows are created in the order of KeyOrder
KeyOrder ==
    [i \in 1..(2 * MaxSave) |->
        IF i <= MaxSave THEN Candidate(i).parcel_id
        ELSE PageParcel(Candidate(i - MaxSave).parcel_id)]

\* PropertyListing.objects.values_list(*fields, named=True): every row of the
\* table, whatever the stage's input names
Listings(st) ==
    LET held == SelectSeq(KeyOrder, LAMBDA k : k \in DOMAIN st)
    IN  [i \in DOMAIN held |->
            [parcel_id |-> held[i], address |-> st[held[i]].address,
             owner_name |-> st[held[i]].owner_name,
             appraiser_url |-> st[held[i]].appraiser_url,
             last_scraped |-> st[held[i]].last_scraped]]

\* the score compare_properties gives one row: a point for each field whose
\* preference the row equals (compare_exact); the model's criteria carry no
\* _min or _max keys, so compare_range_or_max is never entered
Score(x, user_preferences, priority_fields) ==
    Cardinality({field \in priority_fields :
                    /\ field \in DOMAIN user_preferences
                    /\ user_preferences[field] # ""
                    /\ x[field] = user_preferences[field]})

compare_properties(x, y, user_preferences, priority_fields) ==
    Score(x, user_preferences, priority_fields) - Score(y, user_preferences, priority_fields)

RECURSIVE quick_sort(_, _, _)
quick_sort(arr, user_preferences, priority_fields) ==
    IF Len(arr) <= 1 THEN arr
    ELSE LET pivot == arr[1]
             less == SelectSeq(Tail(arr), LAMBDA x :
                        compare_properties(x, pivot, user_preferences, priority_fields) < 0)
             greater == SelectSeq(Tail(arr), LAMBDA x :
                        compare_properties(x, pivot, user_preferences, priority_fields) >= 0)
         IN  quick_sort(less, user_preferences, priority_fields) \o <<pivot>>
                \o quick_sort(greater, user_preferences, priority_fields)

\* sorted_properties[:limit]
Slice(seq, n) == SubSeq(seq, 1, IF n < Len(seq) THEN n ELSE Len(seq))

generate_sorted_properties(input, st) ==
    LET scrape_config == Get(input, "search_criteria", <<>>)
        lim == Get(input, "limit", 10)
        sorted_properties == quick_sort(Listings(st), scrape_config, ListingFields)
    IN  [sorted_properties |-> Slice(sorted_properties, lim),
         excel_path |-> "PropertyListings.xlsx"]

\* the result of a scrape stage that saved the first candidate
ScrapeResults ==
    {[property_ids |-> <<Candidate(1).parcel_id>>, search_criteria |-> c,
      cached_count |-> 0, scraped_count |-> 1] :
        c \in {[owner_name |-> "OWNER"], [address |-> "1 Main St"]}}

StageInit ==
    /\ PipeInit
    /\ ScrapeIdle
    /\ UpsertIdle
    /\ CrawlIdle
    /\ KwIdle
    /\ store = UpdateOrCreate(<<>>, Candidate(1).parcel_id,
                 Defaults(ScrapePropertyDetails(Candidate(1).parcel_id,
                                                Candidate(1).detail_url, "ok")), 0)
    /\ clock = 0
    /\ runPc = "idle"
    /\ search_criteria = <<>>
    /\ limit = 0
    /\ found = <<>>
    /\ run_parcels = <<>>
    /\ cached_parcels = {}
    /\ parcels_to_scrape = <<>>
    /\ properties = <<>>
    /\ saved = 0
    /\ property_ids = <<>>
    /\ cached_count = 0
    /\ freshness_queries = 0
    /\ run_result = <<>>
    /\ scrape_result \in ScrapeResults
    /\ stagePc = [r \in Runs |-> "tax"]
    /\ tax_result = [r \in Runs |-> PyNone]
    /\ sort_result = [r \in Runs |-> PyNone]

\* scrape_tax_data of run r
TaxStage(r) ==
    /\ stagePc[r] = "tax"
    /\ tax_result' = [tax_result EXCEPT ![r] = TaxResult(scrape_result)]
    /\ stagePc' = [stagePc EXCEPT ![r] = "sort"]
    /\ UNCHANGED <<scrape_result, sort_result>>
    /\ UNCHANGED <<pipeVars, scrapeVars, runVars, upsertVars, crawlVars, kwVars>>

\* generate_sorted_properties of run r
SortStage(r) ==
    /\ stagePc[r] = "sort"
    /\ sort_result' = [sort_result EXCEPT
                          ![r] = generate_sorted_properties(tax_result[r], store)]
    /\ stagePc' = [stagePc EXCEPT ![r] = "done"]
    /\ UNCHANGED <<scrape_result, tax_result>>
    /\ UNCHANGED <<pipeVars, scrapeVars, runVars, upsertVars, crawlVars, kwVars>>

\* the save loop of another run writes one row (scrape_data.py 188-191)
OtherRunSaves(i, outcome) ==
    /\ \E r \in Runs : stagePc[r] # "done"
    /\ saved < MaxSave
    /\ saved' = saved + 1
    /\ LET property_data == ScrapePropertyDetails(Candidate(i).parcel_id,
                                                  Candidate(i).detail_url, outcome)
       IN  store' = UpdateOrCreate(store, property_data.parcel_id,
                                   Defaults(property_data), clock)
    /\ UNCHANGED <<clock, runPc, search_criteria, limit, found, run_parcels,
                   cached_parcels, parcels_to_scrape, properties,
                   property_ids, cached_count, freshness_queries, run_result>>
    /\ UNCHANGED <<pipeVars, scrapeVars, upsertVars, crawlVars, stageVars, kwVars>>

StageNext ==
    \/ \E r \in Runs : TaxStage(r)
    \/ \E r \in Runs : SortStage(r)
    \/ \E i \in 1..MaxSave : \E outcome \in DetailOutcomes : OtherRunSaves(i, outcome)

StageSpec == StageInit /\ [][StageNext]_vars

\* C31: two runs whose previous-stage outputs are equal produce equal stage
\* outputs, whatever other runs write to the record store meanwhile.
C31_StageOutputDependsOnInputOnly ==
    \A r1, r2 \in Runs :
        /\ (stagePc[r1] \in {"sort", "done"} /\ stagePc[r2] \in {"sort", "done"})
              => tax_result[r1] = tax_result[r2]
        /\ (stagePc[r1] = "done" /\ stagePc[r2] = "done"
                /\ tax_result[r1] = tax_result[r2])
              => sort_result[r1] = sort_result[r2]

\* what the code does keep: the tax stage is a function of its input alone
C31_TaxStageDependsOnInputOnly ==
    \A r1, r2 \in Runs :
        (stagePc[r1] \in {"sort", "done"} /\ stagePc[r2] \in {"sort", "done"})
            => tax_result[r1] = tax_result[r2]

====
